---- MODULE Spec2Model ----
(***************************************************************************)
(* Model of the resume-tuner control loops:                                *)
(*   - the bullet-point optimizer (extractBulletPoints, generateExperience,*)
(*     evaluateBulletPoints, optimizeResumeBullets),                       *)
(*   - the pdf-parser POST handler (upload, status poll, result fetch),    *)
(*   - the resume-save POST handler (resumes / resume_versions).           *)
(* Strings are sequences of tokens: a token is one character of the text   *)
(* ("-", "1", ".", " ", "\n") or one word; the empty string is << >>.      *)
(***************************************************************************)
EXTENDS Integers, Sequences, FiniteSets, TLC

\* ------------------------------------------------------------------ bounds
\* Largest number of lines in a generated response.
MaxLines == 5
\* Number of resume-save requests that may be in flight together.
MaxRequests == 2
\* Largest number of lines in a text given to extractBulletPoints on its own.
MaxTextLines == 5

\* Number of messages the user sends in the chat window.
MaxTurns == 3

\* ------------------------------------------------------------- pure helpers
Min(S) == CHOOSE x \in S : \A y \in S : x <= y
Max(S) == CHOOSE x \in S : \A y \in S : x >= y

\* JavaScript whitespace (\s), restricted to the characters of the model.
IsWS(c) == c \in {" ", "\n"}

\* String.prototype.trim
Trim(s) ==
  LET keep == {i \in 1..Len(s) : ~IsWS(s[i])}
  IN IF keep = {} THEN << >> ELSE SubSeq(s, Min(keep), Max(keep))

\* String.prototype.toLowerCase on one token.
ToLowerCase(w) ==
  CASE w = "Job" -> "job"
    [] w = "Experience" -> "experience"
    [] w = "Position" -> "position"
    [] w = "COMPLETED" -> "completed"
    [] w = "Completed" -> "completed"
    [] w = "FAILED" -> "failed"
    [] w = "PROCESSING" -> "processing"
    [] OTHER -> w

\* Array.prototype.filter
RECURSIVE SelectNonEmpty(_)
SelectNonEmpty(bs) ==
  IF bs = << >> THEN << >>
  ELSE IF Trim(Head(bs)) = << >> THEN SelectNonEmpty(Tail(bs))
       ELSE <<Head(bs)>> \o SelectNonEmpty(Tail(bs))

\* text.split('\n')
RECURSIVE SplitLines(_)
SplitLines(t) ==
  LET nl == {i \in 1..Len(t) : t[i] = "\n"}
  IN IF nl = {} THEN <<t>>
     ELSE <<SubSeq(t, 1, Min(nl) - 1)>> \o SplitLines(SubSeq(t, Min(nl) + 1, Len(t)))

\* Number.prototype.toString: the decimal digits of n >= 0
RECURSIVE Decimal(_)
Decimal(n) ==
  LET d == <<"0", "1", "2", "3", "4", "5", "6", "7", "8", "9">>[(n % 10) + 1]
  IN IF n < 10 THEN <<d>> ELSE Decimal(n \div 10) \o <<d>>

\* ------------------------------------------------------ extractBulletPoints
Marker == {"-", "*"}
Digit == {"0", "1", "2", "3", "4", "5", "6", "7", "8", "9"}

\* First index >= i that is not whitespace (Len(t)+1 if none): greedy \s*
SkipWS(t, i) == Min({j \in i..(Len(t) + 1) : j = Len(t) + 1 \/ ~IsWS(t[j])})

\* \d+\. matched at i: the digit run starting at i is followed by "."; the
\* value is the index after the ".", or 0 when there is no match at i.
DigitsDot(t, i) ==
  IF i > Len(t) \/ t[i] \notin Digit THEN 0
  ELSE LET e == Min({j \in i..(Len(t) + 1) : j = Len(t) + 1 \/ t[j] \notin Digit})
       IN IF e <= Len(t) /\ t[e] = "." THEN e + 1 ELSE 0

\* (?=\n[-•*]|\n\n|$) at index k (no m flag: $ is the end of the input)
BulletLookahead(t, k) ==
  \/ k = Len(t) + 1
  \/ /\ k < Len(t)
     /\ t[k] = "\n"
     /\ (t[k + 1] \in Marker \/ t[k + 1] = "\n")

\* (?=\n\d+\.|\n\n|$) at index k
NumberedLookahead(t, k) ==
  \/ k = Len(t) + 1
  \/ /\ k < Len(t)
     /\ t[k] = "\n"
     /\ (DigitsDot(t, k + 1) # 0 \/ t[k + 1] = "\n")

\* Array.from(text.matchAll(bulletPattern), m => m[1].trim()), from index p
RECURSIVE BulletMatches(_, _)
BulletMatches(t, p) ==
  LET starts == {i \in p..Len(t) : t[i] \in Marker}
  IN IF starts = {} THEN << >>
     ELSE LET i == Min(starts)
              j == SkipWS(t, i + 1)
              k == Min({x \in j..(Len(t) + 1) : BulletLookahead(t, x)})
          IN <<Trim(SubSeq(t, j, k - 1))>> \o BulletMatches(t, k)

\* Array.from(text.matchAll(numberedPattern), m => m[1].trim()), from index p
RECURSIVE NumberedMatches(_, _)
NumberedMatches(t, p) ==
  LET starts == {i \in p..Len(t) : DigitsDot(t, i) # 0}
  IN IF starts = {} THEN << >>
     ELSE LET i == Min(starts)
              j == SkipWS(t, DigitsDot(t, i))
              k == Min({x \in j..(Len(t) + 1) : NumberedLookahead(t, x)})
          IN <<Trim(SubSeq(t, j, k - 1))>> \o NumberedMatches(t, k)

\* line => line && !startsWith('experience') && !startsWith('job') && ...
KeptLine(line) ==
  /\ line # << >>
  /\ ToLowerCase(line[1]) \notin {"experience", "job", "position"}

RECURSIVE SelectKept(_)
SelectKept(ls) ==
  IF ls = << >> THEN << >>
  ELSE IF KeptLine(Trim(Head(ls))) THEN <<Trim(Head(ls))>> \o SelectKept(Tail(ls))
       ELSE SelectKept(Tail(ls))

\* text.split('\n').map(trim).filter(...)
LineItems(t) == SelectKept(SplitLines(t))

\* The candidate list after the three policies (before the final filter).
Candidates(t) ==
  LET b1 == BulletMatches(t, 1)
      b2 == IF Len(b1) # 4 THEN NumberedMatches(t, 1) ELSE b1
  IN IF Len(b2) # 4 THEN LineItems(t) ELSE b2

\* Mutant of PadOrTruncate: the padding is put in front of the items.
PadOrTruncate_PadFront(bs) ==
  IF Len(bs) > 4 THEN SubSeq(bs, 1, 4)
  ELSE IF Len(bs) < 4 THEN [i \in 1..(4 - Len(bs)) |-> << >>] \o bs
       ELSE bs

\* Mutant of PadOrTruncate: the padding branch is missing.
PadOrTruncate_NoPad(bs) == IF Len(bs) > 4 THEN SubSeq(bs, 1, 4) ELSE bs

\* Return exactly 4 bullets (truncate or pad as needed)
PadOrTruncate(bs) ==
  IF Len(bs) > 4 THEN SubSeq(bs, 1, 4)
  ELSE IF Len(bs) < 4 THEN bs \o [i \in 1..(4 - Len(bs)) |-> << >>]
       ELSE bs

extractBulletPoints(t) == PadOrTruncate(SelectNonEmpty(Candidates(t)))

\* The policies a call evaluates: the numbered pattern when the bullet
\* pattern did not match 4 times, the line split when the list in hand then
\* does not hold 4 items.
Consulted(t) ==
  LET b1 == BulletMatches(t, 1)
      b2 == IF Len(b1) # 4 THEN NumberedMatches(t, 1) ELSE b1
  IN <<"bullet">> \o (IF Len(b1) # 4 THEN <<"numbered">> ELSE << >>)
                 \o (IF Len(b2) # 4 THEN <<"lines">> ELSE << >>)

\* ------------------------------------------------- capabilities (inputs)
\* The i-th line of a response names its own word, so that order is visible.
Word(i) == <<"a", "b", "c", "d", "e", "f", "g", "h">>[i]

Line(kind, i) ==
  CASE kind = "dash" -> <<"-", " ", Word(i)>>
    [] kind = "num" -> Decimal(i) \o <<".", " ", Word(i)>>
    [] kind = "plain" -> <<Word(i)>>
    [] kind = "job" -> <<"Job", " ", Word(i)>>
    [] kind = "hyphen" -> <<Word(i), "-", Word(i)>>
    [] kind = "bare" -> <<"-">>
    [] kind = "blank" -> << >>
    [] OTHER -> << >>

\* lines.join('\n') of the lines kinds[from..Len(kinds)]
RECURSIVE JoinLines(_, _)
JoinLines(kinds, from) ==
  IF from > Len(kinds) THEN << >>
  ELSE IF from = Len(kinds) THEN Line(kinds[from], from)
       ELSE Line(kinds[from], from) \o <<"\n">> \o JoinLines(kinds, from + 1)

\* What llm.invoke may answer to the generation prompt: n lines of one kind.
OptKinds == {"dash", "num", "plain"}
OptResponses ==
  {JoinLines([i \in 1..n |-> kind], 1) : kind \in OptKinds, n \in 0..MaxLines}

\* What llm.invoke may answer to the single-bullet prompt.
RefillContents == {<<" ">>, <<"z", " ">>}

\* What evaluator.invoke may answer (BulletPointEvaluationSchema).
EvalResults ==
  {[grade |-> "pass", feedback |-> << >>],
   [grade |-> "fail", feedback |-> <<"reason">>],
   [grade |-> "fail", feedback |-> << >>]}

Jobs == {"Backend Engineer", "Data Scientist"}

\* The texts extractBulletPoints is applied to on its own: up to MaxTextLines
\* lines of any kinds, trimmed as generateExperience trims the answer.
ExtractKinds == {"dash", "num", "plain", "job", "hyphen", "bare", "blank"}
ExtractTexts ==
  {Trim(JoinLines(kinds, 1)) :
     kinds \in UNION {[1..n -> ExtractKinds] : n \in 0..MaxTextLines}}

\* ----------------------------------------------------- optimizer: state
VARIABLES
  opc,              \* position in optimizeResumeBullets
  job, experience, bullet_points, grades, feedback, iteration_count,
  allPassed,
  gen,              \* locals of a generateExperience call in its refill loop
  prompt,           \* local of generateExperience: the prompt of the call pending
  ev,               \* locals of an evaluateBulletPoints call
  llmCalls,         \* history: llm.invoke calls made
  evalCalls,        \* history: evaluator.invoke calls of the current evaluation
  asked,            \* history: the indices of the bullets given to evaluator.invoke
  answers,          \* history: its answers, one per bullet (NoAnswer: not asked)
  everyFail,        \* history: every evaluator answer so far was "fail"
  firstAllPass,     \* history: iteration 1 got "pass" for all 4 bullets
  error,            \* the error thrown out of optimizeResumeBullets (<< >>: none)
  toolResult,       \* what the optimize_resume tool returned to the agent
  agentResponse     \* the response of the agent POST handler

optVars == <<opc, job, experience, bullet_points, grades, feedback,
             iteration_count, allPassed, gen, prompt, ev, llmCalls, evalCalls, everyFail, firstAllPass, answers, asked,
             error, toolResult, agentResponse>>

\* ---------------------------------------------------- pdf-parser: state
VARIABLES
  ppc,            \* position in the POST handler
  param,          \* the resultType query parameter
  apiKey,         \* whether LLAMA_CLOUD_API_KEY or LLAMA_API_KEY is set
  form,           \* what the form data holds under "file"
  resultType, filePath, jobId, jobResult, isComplete, retryCount,
  fileExists,     \* the file system: whether the staged file exists
  response,       \* the response the handler returns
  uploads, statusChecks, resultFetches, delays,   \* history: provider traffic
  firstStatus,    \* history: << >>, then <<the body of the first status response>>
  lastStatus,     \* << >>, or <<statusResult>>: the status body read in this turn
  completedSeen,  \* history: a status check answered completed (any case)
  pendingChecks,  \* history: status checks answered neither completed nor failure
  fetched,        \* history: <<job id, result type, body>> of each result fetch
  unlinkFailed,   \* history: fs.unlinkSync threw in the finally block
  cause           \* history: << >>, then <<the condition that failed the request>>

parseVars == <<ppc, param, apiKey, form, resultType, filePath, jobId, jobResult,
               isComplete, retryCount, fileExists, response, uploads,
               statusChecks, resultFetches, delays, firstStatus, lastStatus, completedSeen,
               pendingChecks, fetched, unlinkFailed, cause>>

\* ---------------------------------------------------- resume-save: state
Requests == 1..MaxRequests

VARIABLES
  resumes,          \* table resumes: id -> row, or NoRow
  resume_versions,  \* table resume_versions: its rows in insertion order
  spc,              \* per request: position in the POST handler
  body,             \* per request: the request body
  currentResume,    \* per request: the row read by the ownership query
  nextVersionNo,    \* per request
  saveResponse      \* per request: the response returned

saveVars == <<resumes, resume_versions, spc, body, currentResume, nextVersionNo,
              saveResponse>>


\* ---------------------------------------- extractBulletPoints on its own
VARIABLES
  text,       \* the argument
  bullets,    \* the array returned (<< >>: not called yet)
  consulted   \* history: the policies whose pattern or split was evaluated

extractVars == <<text, bullets, consulted>>

\* ------------------------------------------- simultaneous invocations
\* The two invocations in flight together.
Calls == {1, 2}

VARIABLES
  calls,   \* per invocation: its kind and the locals of its function
  disk     \* os.tmpdir(): path -> the bytes of the file there, or NULL

concVars == <<calls, disk>>

\* ------------------------------------------------- Chat component: state
VARIABLES
  messages,    \* useState<Message[]>([])
  input,       \* useState("")
  isLoading,   \* useState(false)
  threadId,    \* useState<string | null>(null)
  rendered,    \* the isLoading that the handleSend of the latest render closes over
  requests     \* the requests to /api/agent in flight: their bodies

chatVars == <<messages, input, isLoading, threadId, rendered, requests>>

\* What an action of one component leaves alone: the other components.
OnlyOpt == UNCHANGED <<parseVars, saveVars, extractVars, concVars, chatVars>>
OnlyParse == UNCHANGED <<optVars, saveVars, extractVars, concVars, chatVars>>
OnlySave == UNCHANGED <<optVars, parseVars, extractVars, concVars, chatVars>>
OnlyExtract == UNCHANGED <<optVars, parseVars, saveVars, concVars, chatVars>>
OnlyConc == UNCHANGED <<optVars, parseVars, saveVars, extractVars, chatVars>>
OnlyChat == UNCHANGED <<optVars, parseVars, saveVars, extractVars, concVars>>

MAX_ITERATIONS == 5

Empty4 == <<"", "", "", "">>
EmptyFeedback4 == <<<< >>, << >>, << >>, << >>>>
NoGen == [iterations |-> 0, experience |-> << >>, bullet_points |-> << >>, i |-> 0]
NoEv == [grades |-> << >>, feedback |-> << >>]
NoAnswer == [grade |-> "", feedback |-> << >>]
NoAgentResponse == [status |-> 0, content |-> << >>, error |-> ""]

\* The messages of the errors a rejected capability call may throw.
CapabilityErrors == {<<"429 Rate limit exceeded">>, <<"Connection error.">>}

MissingFeedback == <<"Missing bullet point. Please generate a complete bullet point.">>
ForcedPrefix == <<"Forced pass after 5 iterations. Original feedback: ">>

InitOpt ==
  /\ opc = "loop"
  /\ job \in Jobs
  /\ experience = << >>
  /\ bullet_points = EmptyFeedback4
  /\ grades = Empty4
  /\ feedback = EmptyFeedback4
  /\ iteration_count = 0
  /\ allPassed = FALSE
  /\ gen = NoGen
  /\ prompt = << >>
  /\ ev = NoEv
  /\ llmCalls = 0
  /\ evalCalls = 0
  /\ everyFail = TRUE
  /\ answers = << >>
  /\ asked = << >>
  /\ firstAllPass = FALSE
  /\ error = << >>
  /\ toolResult = << >>
  /\ agentResponse = NoAgentResponse

\* Mutant of AllPassed: the grade is compared with the wrong literal.
AllPassed_WrongLiteral(gs) == \A i \in 1..Len(gs) : gs[i] = "Pass"

\* state.grades.every(grade => grade === "pass")
AllPassed(gs) == \A i \in 1..Len(gs) : gs[i] = "pass"

\* while (!allPassed && state.iteration_count < MAX_ITERATIONS)
LoopContinues(passed, count) == ~passed /\ count < MAX_ITERATIONS

LoopCheck ==
  /\ OnlyOpt
  /\ UNCHANGED <<error, toolResult, agentResponse>>
  /\ opc = "loop"
  /\ opc' = IF LoopContinues(allPassed, iteration_count) THEN "generate" ELSE "done"
  /\ UNCHANGED <<job, experience, bullet_points, grades, feedback, iteration_count,
                 allPassed, gen, prompt, ev, llmCalls, evalCalls, everyFail,
                 firstAllPass, answers, asked>>

\* Mutant of FeedbackLines: the entries are not tested, an empty one gets its
\* line too.
RECURSIVE FeedbackLines_EveryEntry(_, _)
FeedbackLines_EveryEntry(fbs, i) ==
  IF i > Len(fbs) THEN << >>
  ELSE <<"(U+2022) Bullet point ">> \o Decimal(i) \o <<": ">> \o fbs[i] \o <<"\n">>
       \o FeedbackLines_EveryEntry(fbs, i + 1)

\* state.feedback.forEach((fb, i) => { if (fb) prompt += `• Bullet point
\* ${i + 1}: ${fb}\n` }), from the entry at position i on (i counts from 1).
RECURSIVE FeedbackLines(_, _)
FeedbackLines(fbs, i) ==
  IF i > Len(fbs) THEN << >>
  ELSE (IF fbs[i] # << >>
        THEN <<"(U+2022) Bullet point ">> \o Decimal(i) \o <<": ">> \o fbs[i] \o <<"\n">>
        ELSE << >>)
       \o FeedbackLines(fbs, i + 1)

\* The prompt of generateExperience: the instructions for the job, then the
\* previous feedback if this is not the first attempt and there is any.
Prompt(iterations, role, fbs) ==
  <<"Generate ONE realistic professional experience for a ", role, " role. [...]">>
  \o (IF iterations > 1 /\ \E i \in 1..Len(fbs) : fbs[i] # << >>
      THEN <<"\n\nPrevious feedback to address:\n">> \o FeedbackLines(fbs, 1)
      ELSE << >>)

\* generateExperience up to its call of llm.invoke: the prompt is built.
BuildPrompt ==
  /\ OnlyOpt
  /\ UNCHANGED <<error, toolResult, agentResponse>>
  /\ opc = "generate"
  /\ prompt' = Prompt(iteration_count + 1, job, feedback)
  /\ opc' = "invoke"
  /\ UNCHANGED <<job, experience, bullet_points, grades, feedback, iteration_count,
                 allPassed, gen, ev, llmCalls, evalCalls, everyFail,
                 firstAllPass, answers, asked>>

\* Mutant of NeedsRefill: the missing bullets are asked for in any iteration.
NeedsRefill_AnyIteration(iterations, bps) ==
  \E i \in 1..Len(bps) : bps[i] = << >>

\* iterations >= 5 && bullet_points.some(bp => !bp)
NeedsRefill(iterations, bps) ==
  iterations >= 5 /\ \E i \in 1..Len(bps) : bps[i] = << >>

\* Mutant of GenerateReturn: the grades and the feedback are carried over.
GenerateReturn_GradesKept(iterations, exp, bps) ==
  /\ experience' = exp
  /\ bullet_points' = bps
  /\ UNCHANGED <<grades, feedback>>
  /\ iteration_count' = iterations
  /\ gen' = NoGen
  /\ ev' = NoEv
  /\ evalCalls' = 0
  /\ answers' = << >>
  /\ asked' = << >>
  /\ opc' = "evaluate"

\* The return of generateExperience: the new state.
GenerateReturn(iterations, exp, bps) ==
  /\ experience' = exp
  /\ bullet_points' = bps
  /\ grades' = Empty4
  /\ feedback' = EmptyFeedback4
  /\ iteration_count' = iterations
  /\ gen' = NoGen
  /\ ev' = NoEv
  /\ evalCalls' = 0
  /\ answers' = << >>
  /\ asked' = << >>
  /\ opc' = "evaluate"

\* generateExperience up to the extraction of the answer to the main prompt.
GenerateInvoke ==
  /\ OnlyOpt
  /\ UNCHANGED <<error, toolResult, agentResponse>>
  /\ opc = "invoke"
  /\ llmCalls' = llmCalls + 1
  /\ prompt' = << >>
  /\ \E content \in OptResponses :
       LET iterations == iteration_count + 1
           exp == Trim(content)
           bps == extractBulletPoints(exp)
       IN IF NeedsRefill(iterations, bps)
          THEN /\ gen' = [iterations |-> iterations, experience |-> exp,
                          bullet_points |-> bps, i |-> 1]
               /\ opc' = "refill"
               /\ UNCHANGED <<experience, bullet_points, grades, feedback,
                              iteration_count, ev, evalCalls, answers, asked>>
          ELSE GenerateReturn(iterations, exp, bps)
  /\ UNCHANGED <<job, allPassed, everyFail, firstAllPass>>

\* One turn of the loop over the missing bullets: the next empty slot from
\* gen.i on is filled with the trimmed answer; the loop then moves on.
RefillInvoke ==
  /\ OnlyOpt
  /\ UNCHANGED <<error, toolResult, agentResponse>>
  /\ opc = "refill"
  /\ llmCalls' = llmCalls + 1
  /\ UNCHANGED prompt
  /\ \E content \in RefillContents :
       LET bps == gen.bullet_points
           i == Min({k \in gen.i..Len(bps) : bps[k] = << >>})
           filled == [bps EXCEPT ![i] = Trim(content)]
       IN IF \E k \in (i + 1)..Len(bps) : bps[k] = << >>
          THEN /\ gen' = [gen EXCEPT !.bullet_points = filled, !.i = i + 1]
               /\ UNCHANGED <<opc, experience, bullet_points, grades, feedback,
                              iteration_count, ev, evalCalls, answers, asked>>
          ELSE GenerateReturn(gen.iterations, gen.experience, filled)
  /\ UNCHANGED <<job, allPassed, everyFail, firstAllPass>>

\* Mutant of Thrown: the error is caught and the state reached so far is
\* returned.
Thrown_StateSalvaged(e) ==
  /\ opc' = "done"
  /\ error' = e
  /\ gen' = NoGen
  /\ prompt' = << >>
  /\ ev' = NoEv
  /\ UNCHANGED <<experience, bullet_points, grades, feedback, iteration_count,
                 allPassed, toolResult, agentResponse>>

\* A rejected await leaves optimizeResumeBullets by the exception: its local
\* state and the locals of the call in flight go out of scope.
Thrown(e) ==
  /\ opc' = "threw"
  /\ error' = e
  /\ UNCHANGED <<toolResult, agentResponse>>
  /\ experience' = << >>
  /\ bullet_points' = << >>
  /\ grades' = << >>
  /\ feedback' = << >>
  /\ iteration_count' = 0
  /\ allPassed' = FALSE
  /\ gen' = NoGen
  /\ prompt' = << >>
  /\ ev' = NoEv

\* llm.invoke rejects.
GenerateThrows ==
  /\ OnlyOpt
  /\ opc \in {"invoke", "refill"}
  /\ llmCalls' = llmCalls + 1
  /\ \E e \in CapabilityErrors : Thrown(e)
  /\ UNCHANGED <<job, evalCalls, everyFail, firstAllPass, answers, asked>>

\* Force pass after 5 iterations: what is recorded for an evaluator answer.
RecordedGrade(count, result) == IF count >= 5 THEN "pass" ELSE result.grade

RecordedFeedback(count, result) ==
  IF count >= 5 /\ result.grade = "fail"
  THEN ForcedPrefix \o result.feedback
  ELSE result.feedback

\* Mutant of IsMissing: no bullet is taken to be missing.
IsMissing_Never(bp) == FALSE

\* if (!bp): the bullet is the empty string
IsMissing(bp) == bp = << >>

\* One turn of the loop of evaluateBulletPoints.
EvalStep ==
  /\ OnlyOpt
  /\ UNCHANGED <<error, toolResult, agentResponse>>
  /\ opc = "evaluate"
  /\ Len(ev.grades) < Len(bullet_points)
  /\ LET i == Len(ev.grades) + 1
         bp == bullet_points[i]
     IN IF IsMissing(bp)
        THEN /\ ev' = [grades |-> Append(ev.grades, "fail"),
                       feedback |-> Append(ev.feedback, MissingFeedback)]
             /\ answers' = Append(answers, NoAnswer)
             /\ UNCHANGED asked
             /\ UNCHANGED <<evalCalls, everyFail>>
        ELSE \E result \in EvalResults :
               /\ ev' = [grades |-> Append(ev.grades, RecordedGrade(iteration_count, result)),
                         feedback |-> Append(ev.feedback, RecordedFeedback(iteration_count, result))]
               /\ evalCalls' = evalCalls + 1
               /\ everyFail' = (everyFail /\ result.grade = "fail")
               /\ answers' = Append(answers, result)
               /\ asked' = Append(asked, i)
  /\ UNCHANGED <<opc, job, experience, bullet_points, grades, feedback,
                 iteration_count, allPassed, gen, prompt, llmCalls, firstAllPass>>

\* evaluator.invoke rejects.
EvalThrows ==
  /\ OnlyOpt
  /\ opc = "evaluate"
  /\ Len(ev.grades) < Len(bullet_points)
  /\ ~IsMissing(bullet_points[Len(ev.grades) + 1])
  /\ evalCalls' = evalCalls + 1
  /\ \E e \in CapabilityErrors : Thrown(e)
  /\ UNCHANGED <<job, llmCalls, everyFail, firstAllPass, answers>>
  /\ asked' = Append(asked, Len(ev.grades) + 1)

\* The return of evaluateBulletPoints and the check that follows it.
EvalReturn ==
  /\ OnlyOpt
  /\ UNCHANGED <<error, toolResult, agentResponse>>
  /\ opc = "evaluate"
  /\ Len(ev.grades) = Len(bullet_points)
  /\ grades' = ev.grades
  /\ feedback' = ev.feedback
  /\ allPassed' = AllPassed(ev.grades)
  /\ ev' = NoEv
  /\ firstAllPass' = IF iteration_count = 1
                     THEN Len(answers) = 4 /\ \A i \in 1..4 : answers[i].grade = "pass"
                     ELSE firstAllPass
  /\ opc' = "loop"
  /\ UNCHANGED <<job, experience, bullet_points, iteration_count, gen, prompt,
                 llmCalls, evalCalls, everyFail, answers, asked>>

\* ------------------------------------------------ optimizer: its caller
\* result.bullet_points.map((bp, i) => `${i+1}. ${bp} ${mark}`).join('\n\n')
RECURSIVE FormatBullets(_, _, _)
FormatBullets(bps, gs, i) ==
  IF i > Len(bps) THEN << >>
  ELSE Decimal(i) \o <<". ">> \o bps[i] \o
       <<" ", IF gs[i] = "pass" THEN "check" ELSE "cross">> \o
       (IF i < Len(bps) THEN <<"\n\n">> ELSE << >>) \o FormatBullets(bps, gs, i + 1)

\* The optimize_resume tool once optimizeResumeBullets has returned or thrown:
\* the formatted bullets, or the caught error turned into the tool's answer.
optimizeResume ==
  /\ OnlyOpt
  /\ opc \in {"done", "threw"}
  /\ toolResult = << >>
  /\ toolResult' =
       IF opc = "done"
       THEN <<"Here are optimized resume bullet points for the ", job, " role:\n\n">>
            \o FormatBullets(bullet_points, grades, 1)
       ELSE <<"Error optimizing resume: ">> \o error
  /\ UNCHANGED <<opc, job, experience, bullet_points, grades, feedback, iteration_count,
                 allPassed, gen, prompt, ev, llmCalls, evalCalls, everyFail, firstAllPass,
                 answers, asked, error, agentResponse>>

\* The agent POST handler after the tool returned: agent.invoke resolves and
\* its last message is sent with status 200, or it rejects and the catch
\* clause answers 500.
POST ==
  /\ OnlyOpt
  /\ toolResult # << >>
  /\ agentResponse = NoAgentResponse
  /\ \/ agentResponse' = [status |-> 200, content |-> toolResult, error |-> ""]
     \/ agentResponse' = [status |-> 500, content |-> << >>,
                          error |-> "Failed to process request"]
  /\ UNCHANGED <<opc, job, experience, bullet_points, grades, feedback, iteration_count,
                 allPassed, gen, prompt, ev, llmCalls, evalCalls, everyFail, firstAllPass,
                 answers, asked, error, toolResult>>

NextOpt ==
  \/ LoopCheck
  \/ BuildPrompt
  \/ GenerateInvoke
  \/ RefillInvoke
  \/ GenerateThrows
  \/ EvalStep
  \/ EvalThrows
  \/ EvalReturn
  \/ optimizeResume
  \/ POST

\* --------------------------------------------------- pdf-parser: inputs
NULL == "null"

\* url.searchParams.get('resultType')
ResultTypeParams == {NULL, "", "markdown", "text", "json", "xml", "MARKDOWN"}

\* What the request's form data holds under the key "file".
FormKinds == {"absent", "empty", "file"}

\* HTTP status codes of a provider response that is not ok, with the status
\* text of each, and the bodies such a response may carry.
ErrorCodes == {401, 500}
StatusText(code) == IF code = 401 THEN "Unauthorized" ELSE "Internal Server Error"
ErrorBodies == {"Invalid API key", "upstream unavailable"}

\* The body of an ok upload response: job_id and id, either one possibly absent.
UploadResults == [job_id : {NULL, "job-1"}, id : {NULL, "job-2"}]

\* The body of an ok status response.
StatusValues ==
  {NULL, "completed", "COMPLETED", "Completed", "failed", "FAILED",
   "processing", "PENDING"}
StatusResults == [status : StatusValues, error : {NULL, "quota exceeded"}]

\* The body of an ok result response (provider-defined).
Documents == {"doc-A", "doc-B"}

\* -------------------------------------------------- pdf-parser: handler
MAX_RETRIES == 60
POLLING_INTERVAL == 3000

NoResponse == [status |-> 0, error |-> << >>, result |-> NULL]

InitParse ==
  /\ ppc = "start"
  /\ param \in ResultTypeParams
  /\ apiKey \in BOOLEAN
  /\ form \in FormKinds
  /\ resultType = NULL
  /\ filePath = NULL
  /\ jobId = NULL
  /\ jobResult = NULL
  /\ isComplete = FALSE
  /\ retryCount = 0
  /\ fileExists = FALSE
  /\ response = NoResponse
  /\ uploads = 0
  /\ statusChecks = 0
  /\ resultFetches = 0
  /\ delays = 0
  /\ firstStatus = << >>
  /\ lastStatus = << >>
  /\ completedSeen = FALSE
  /\ pendingChecks = 0
  /\ fetched = << >>
  /\ unlinkFailed = FALSE
  /\ cause = << >>

\* Mutant of ValidResultType: the validation accepts every result type.
ValidResultType_Any(rt) == TRUE

\* ['markdown', 'text', 'json'].includes(resultType)
ValidResultType(rt) == rt \in {"markdown", "text", "json"}

\* NextResponse.json({ error }, { status })
ErrorResponse(code, message) == [status |-> code, error |-> message, result |-> NULL]

\* Mutant of ResultResponse: the success response carries no result.
ResultResponse_Dropped(result) == [status |-> 200, error |-> << >>, result |-> NULL]

\* NextResponse.json({ result: jobResult })
ResultResponse(result) == [status |-> 200, error |-> << >>, result |-> result]

\* The condition that ends a request without a result; step names the
\* provider request concerned, code and body what its response held.
Failure(kind, step, code, errorData) ==
  <<[kind |-> kind, step |-> step, code |-> code, body |-> errorData]>>

\* A return statement inside the try block: the finally block runs next.
Return(resp) ==
  /\ response' = resp
  /\ ppc' = "finally"

\* Mutant of Throw: the error is noted and the failed step is tried again.
Throw_TriedAgain(message) ==
  /\ response' = ErrorResponse(500, message)
  /\ UNCHANGED ppc

\* A throw inside the try block: the catch clause answers 500 with the message.
Throw(message) == Return(ErrorResponse(500, message))

\* From the entry of POST to `await request.formData()`.
Receive ==
  /\ OnlyParse
  /\ ppc = "start"
  /\ LET rt == IF param \in {NULL, ""} THEN "markdown" ELSE param
     IN /\ resultType' = rt
        /\ IF ~ValidResultType(rt)
           THEN /\ Return(ErrorResponse(400,
                     <<"Invalid result type. Supported types are: markdown, text, json">>))
                /\ cause' = Failure("invalid result type", NULL, 0, NULL)
           ELSE IF ~apiKey
           THEN /\ Return(ErrorResponse(500,
                     <<"LlamaParse API key not configured. Please set LLAMA_CLOUD_API_KEY in your environment variables.">>))
                /\ cause' = Failure("no api key", NULL, 0, NULL)
           ELSE /\ ppc' = "form"
                /\ UNCHANGED <<response, cause>>
  /\ UNCHANGED <<param, apiKey, form, filePath, jobId, jobResult, isComplete,
                 retryCount, fileExists, uploads, statusChecks, resultFetches,
                 delays, firstStatus, lastStatus, completedSeen, pendingChecks, fetched, unlinkFailed>>

\* request.formData(), the check for "file" and saveFileToDisk.
saveFileToDisk ==
  /\ OnlyParse
  /\ ppc = "form"
  /\ \/ /\ Throw(<<"Failed to parse body as FormData.">>)
        /\ cause' = Failure("form data", NULL, 0, NULL)
        /\ UNCHANGED <<filePath, fileExists>>
     \/ /\ form = "absent"
        /\ Return(ErrorResponse(400,
             <<"No file provided. Please upload a file with the key \"file\"">>))
        /\ cause' = Failure("no file", NULL, 0, NULL)
        /\ UNCHANGED <<filePath, fileExists>>
     \/ /\ form = "empty"
        /\ Throw(<<"No file uploaded">>)
        /\ cause' = Failure("no file", NULL, 0, NULL)
        /\ UNCHANGED <<filePath, fileExists>>
     \/ /\ form = "file"
        /\ filePath' = "tmp/uuid-name"
        /\ fileExists' = TRUE
        /\ ppc' = "upload"
        /\ UNCHANGED <<response, cause>>
  /\ UNCHANGED <<param, apiKey, form, resultType, jobId, jobResult, isComplete,
                 retryCount, uploads, statusChecks, resultFetches, delays,
                 firstStatus, lastStatus, completedSeen, pendingChecks, fetched, unlinkFailed>>

\* uploadResult.job_id || uploadResult.id
JobIdOf(uploadResult) ==
  IF uploadResult.job_id # NULL THEN uploadResult.job_id ELSE uploadResult.id

\* `Failed to upload file to LlamaParse: ${response.status} ${response.statusText}`
UploadError(code) ==
  <<"Failed to upload file to LlamaParse: ">> \o Decimal(code) \o <<" ", StatusText(code)>>

\* The upload request and the reading of its answer.
Upload ==
  /\ OnlyParse
  /\ ppc = "upload"
  /\ uploads' = uploads + 1
  /\ \/ /\ Throw(<<"fetch failed">>)
        /\ cause' = Failure("network", "upload", 0, NULL)
        /\ UNCHANGED jobId
     \/ /\ \E code \in ErrorCodes, errorData \in ErrorBodies :
             /\ Throw(UploadError(code))
             /\ cause' = Failure("http status", "upload", code, errorData)
        /\ UNCHANGED jobId
     \/ /\ Throw(<<"Unexpected token in JSON">>)
        /\ cause' = Failure("invalid json", "upload", 0, NULL)
        /\ UNCHANGED jobId
     \/ \E uploadResult \in UploadResults :
          /\ jobId' = JobIdOf(uploadResult)
          /\ IF JobIdOf(uploadResult) = NULL
             THEN /\ Throw(<<"No job ID returned from LlamaParse">>)
                  /\ cause' = Failure("missing job id", "upload", 0, NULL)
             ELSE /\ ppc' = "poll"
                  /\ UNCHANGED <<response, cause>>
  /\ UNCHANGED <<param, apiKey, form, resultType, filePath, jobResult, isComplete,
                 retryCount, fileExists, statusChecks, resultFetches, delays,
                 firstStatus, lastStatus, completedSeen, pendingChecks, fetched, unlinkFailed>>

\* statusResult.status?.toLowerCase?.()
StatusValue(statusResult) == ToLowerCase(statusResult.status)

\* Mutant of PollContinues: the retry bound is off by one.
PollContinues_OffByOne(complete, count) == ~complete /\ count <= MAX_RETRIES

\* while (!isComplete && retryCount < maxRetries)
PollContinues(complete, count) == ~complete /\ count < MAX_RETRIES

\* Mutant of HandleStatus: the failure branch is missing.
HandleStatus_NoFailure(statusResult) ==
  IF StatusValue(statusResult) = "completed"
  THEN /\ isComplete' = TRUE
       /\ ppc' = "result"
       /\ UNCHANGED <<response, cause>>
  ELSE /\ ppc' = "poll"
       /\ UNCHANGED <<isComplete, response, cause>>

\* Mutant of HandleStatus: the error field is looked at before the status.
HandleStatus_ErrorFirst(statusResult) ==
  IF StatusValue(statusResult) = "failed" \/ statusResult.error # NULL
  THEN /\ Throw(<<"Parsing job failed: ">> \o
                <<IF statusResult.error # NULL THEN statusResult.error
                  ELSE "Unknown error">>)
       /\ cause' = Failure("provider failure", "status", 0, NULL)
       /\ UNCHANGED isComplete
  ELSE IF StatusValue(statusResult) = "completed"
  THEN /\ isComplete' = TRUE
       /\ ppc' = "result"
       /\ UNCHANGED <<response, cause>>
  ELSE /\ ppc' = "poll"
       /\ UNCHANGED <<isComplete, response, cause>>

\* What the loop body does with the body of an ok status response.
HandleStatus(statusResult) ==
  IF StatusValue(statusResult) = "completed"
  THEN /\ isComplete' = TRUE
       /\ ppc' = "result"
       /\ UNCHANGED <<response, cause>>
  ELSE IF StatusValue(statusResult) = "failed" \/ statusResult.error # NULL
  THEN /\ Throw(<<"Parsing job failed: ">> \o
                <<IF statusResult.error # NULL THEN statusResult.error
                  ELSE "Unknown error">>)
       /\ cause' = Failure("provider failure", "status", 0, NULL)
       /\ UNCHANGED isComplete
  ELSE /\ ppc' = "poll"
       /\ UNCHANGED <<isComplete, response, cause>>

\* Mutant of PollDelay: the turn goes on without the wait.
PollDelay_Skipped ==
  /\ OnlyParse
  /\ ppc = "poll"
  /\ PollContinues(isComplete, retryCount)
  /\ ppc' = "check"
  /\ UNCHANGED <<param, apiKey, form, resultType, filePath, jobId, jobResult,
                 isComplete, retryCount, fileExists, response, uploads,
                 statusChecks, resultFetches, delays, firstStatus, completedSeen,
                 pendingChecks, fetched, unlinkFailed, cause>>
  /\ lastStatus' = << >>

\* The head of a turn of the poll loop: the wait between polling attempts;
\* the statusResult of the turn before is out of scope.
PollDelay ==
  /\ OnlyParse
  /\ ppc = "poll"
  /\ PollContinues(isComplete, retryCount)
  /\ delays' = delays + 1
  /\ ppc' = "check"
  /\ UNCHANGED <<param, apiKey, form, resultType, filePath, jobId, jobResult,
                 isComplete, retryCount, fileExists, response, uploads,
                 statusChecks, resultFetches, firstStatus, completedSeen,
                 pendingChecks, fetched, unlinkFailed, cause>>
  /\ lastStatus' = << >>

\* The turn after its wait, up to the handling of the status: retryCount++,
\* the status request and the reading of its answer.
PollStatus ==
  /\ OnlyParse
  /\ ppc = "check"
  /\ UNCHANGED delays
  /\ retryCount' = retryCount + 1
  /\ statusChecks' = statusChecks + 1
  /\ \/ /\ Throw(<<"fetch failed">>)
        /\ cause' = Failure("network", "status", 0, NULL)
        /\ UNCHANGED <<isComplete, firstStatus, lastStatus, completedSeen, pendingChecks>>
     \/ /\ \E code \in ErrorCodes, errorData \in ErrorBodies :
             /\ Throw(<<"Failed to check job status">>)
             /\ cause' = Failure("http status", "status", code, errorData)
        /\ UNCHANGED <<isComplete, firstStatus, lastStatus, completedSeen, pendingChecks>>
     \/ /\ Throw(<<"Unexpected token in JSON">>)
        /\ cause' = Failure("invalid json", "status", 0, NULL)
        /\ UNCHANGED <<isComplete, firstStatus, lastStatus, completedSeen, pendingChecks>>
     \/ \E statusResult \in StatusResults :
          /\ HandleStatus(statusResult)
          /\ firstStatus' = IF statusChecks = 0 THEN <<statusResult>> ELSE firstStatus
          /\ lastStatus' = <<statusResult>>
          /\ completedSeen' =
               (completedSeen \/ statusResult.status \in {"completed", "COMPLETED", "Completed"})
          /\ pendingChecks' =
               IF /\ statusResult.status \notin {"completed", "COMPLETED", "Completed",
                                                "failed", "FAILED"}
                  /\ statusResult.error = NULL
               THEN pendingChecks + 1 ELSE pendingChecks
  /\ UNCHANGED <<param, apiKey, form, resultType, filePath, jobId, jobResult,
                 fileExists, uploads, resultFetches, fetched, unlinkFailed>>

\* The result request of the completed branch and the reading of its answer.
FetchResult ==
  /\ OnlyParse
  /\ ppc = "result"
  /\ resultFetches' = resultFetches + 1
  /\ \/ /\ Throw(<<"fetch failed">>)
        /\ cause' = Failure("network", "result", 0, NULL)
        /\ UNCHANGED <<jobResult, fetched>>
     \/ /\ \E code \in ErrorCodes, errorData \in ErrorBodies :
             /\ Throw(<<"Failed to get parsing results">>)
             /\ cause' = Failure("http status", "result", code, errorData)
        /\ UNCHANGED <<jobResult, fetched>>
     \/ /\ Throw(<<"Failed to parse result JSON">>)
        /\ cause' = Failure("invalid json", "result", 0, NULL)
        /\ UNCHANGED <<jobResult, fetched>>
     \/ \E doc \in Documents :
          /\ jobResult' = doc
          /\ fetched' = Append(fetched, <<jobId, resultType, doc>>)
          /\ ppc' = "poll"
          /\ UNCHANGED <<response, cause>>
  /\ UNCHANGED <<param, apiKey, form, resultType, filePath, jobId, isComplete,
                 retryCount, fileExists, uploads, statusChecks, delays,
                 firstStatus, lastStatus, completedSeen, pendingChecks, unlinkFailed>>

\* Math.floor((API_CONFIG.POLLING_INTERVAL * API_CONFIG.MAX_RETRIES) / 1000)
TimeoutSeconds == (POLLING_INTERVAL * MAX_RETRIES) \div 1000

\* Mutant of TimeoutError: the timeout is reported as a failure of the job.
TimeoutError_AsJobFailure == <<"Parsing job failed: ", "Unknown error">>

\* `PDF parsing timed out after ${timeoutSeconds} seconds`
TimeoutError ==
  <<"PDF parsing timed out after ">> \o Decimal(TimeoutSeconds) \o <<" seconds">>

\* After the loop: the timeout error or the success response.
PollExit ==
  /\ OnlyParse
  /\ ppc = "poll"
  /\ ~PollContinues(isComplete, retryCount)
  /\ IF ~isComplete
     THEN /\ Throw(TimeoutError)
          /\ cause' = Failure("timeout", "status", 0, NULL)
     ELSE /\ Return(ResultResponse(jobResult))
          /\ UNCHANGED cause
  /\ UNCHANGED <<param, apiKey, form, resultType, filePath, jobId, jobResult,
                 isComplete, retryCount, fileExists, uploads, statusChecks,
                 resultFetches, delays, firstStatus, lastStatus, completedSeen, pendingChecks, fetched,
                 unlinkFailed>>

\* Mutant of MustUnlink: the existence test is inverted.
MustUnlink_Inverted(path, exists) == path # NULL /\ ~exists

\* if (filePath && fs.existsSync(filePath))
MustUnlink(path, exists) == path # NULL /\ exists

\* The finally block: the staged file is unlinked; an error of unlinkSync is
\* caught and logged. The response then goes to the caller.
Finally ==
  /\ OnlyParse
  /\ ppc = "finally"
  /\ ppc' = "returned"
  /\ IF MustUnlink(filePath, fileExists)
     THEN \/ /\ fileExists' = FALSE
             /\ UNCHANGED unlinkFailed
          \/ /\ unlinkFailed' = TRUE
             /\ UNCHANGED fileExists
     ELSE UNCHANGED <<fileExists, unlinkFailed>>
  /\ UNCHANGED <<param, apiKey, form, resultType, filePath, jobId, jobResult,
                 isComplete, retryCount, response, uploads, statusChecks,
                 resultFetches, delays, firstStatus, lastStatus, completedSeen, pendingChecks, fetched,
                 cause>>

NextParse ==
  \/ Receive
  \/ saveFileToDisk
  \/ Upload
  \/ PollDelay
  \/ PollStatus
  \/ FetchResult
  \/ PollExit
  \/ Finally

\* ------------------------------------------------- resume-save: handler
\* uuidv4() of request r: a fresh id.
NewResumeId(r) == <<"uuid-1", "uuid-2", "uuid-3", "uuid-4">>[r]

\* uuidv4() of the version record request r inserts.
VersionId(r) == <<"version-1", "version-2", "version-3", "version-4">>[r]

ResumeIds == {"r1"} \cup {NewResumeId(r) : r \in Requests}
UserIds == {"u1", "u2"}
NoRow == [user_id |-> NULL, payload |-> NULL, company |-> NULL,
          resume_name |-> NULL, updated_at |-> NULL]

\* The payload request r sends, and the time of its writes.
PayloadOf(r) == <<"payload-1", "payload-2", "payload-3", "payload-4">>[r]
Now(r) == <<"t1", "t2", "t3", "t4">>[r]

\* The bodies a request may carry (company and resume_name: both or neither).
Bodies(r) ==
  {b \in [payload : {NULL, PayloadOf(r)}, userId : {NULL} \cup UserIds,
          resumeId : {NULL, "r1"}, company : {NULL, "Acme"},
          resume_name : {NULL, "CV"}] :
     (b.company = NULL) <=> (b.resume_name = NULL)}

NoBody == [payload |-> NULL, userId |-> NULL, resumeId |-> NULL, company |-> NULL,
           resume_name |-> NULL]
NoSaveResponse == [status |-> 0, message |-> "", versionNo |-> 0]

\* The tables after an earlier create request of u1: resume r1, version 1.
InitSave ==
  /\ resumes = [id \in ResumeIds |->
                  IF id = "r1"
                  THEN [user_id |-> "u1", payload |-> "payload-0", company |-> "Company",
                        resume_name |-> "Resume", updated_at |-> "t0"]
                  ELSE NoRow]
  /\ resume_versions = <<[version_id |-> "version-0", resume_id |-> "r1",
                          version_no |-> 1, payload |-> "payload-0", user_id |-> "u1"]>>
  /\ spc = [r \in Requests |-> "idle"]
  /\ body = [r \in Requests |-> NoBody]
  /\ currentResume = [r \in Requests |-> NoRow]
  /\ nextVersionNo = [r \in Requests |-> 0]
  /\ saveResponse = [r \in Requests |-> NoSaveResponse]

\* return NextResponse.json(...)
Respond(r, status, message, versionNo) ==
  /\ saveResponse' = [saveResponse EXCEPT ![r] =
       [status |-> status, message |-> message, versionNo |-> versionNo]]
  /\ spc' = [spc EXCEPT ![r] = "done"]

\* request.json() and the validation of the required fields.
ReceiveSave(r) ==
  /\ OnlySave
  /\ spc[r] = "idle"
  /\ \E b \in Bodies(r) :
       /\ body' = [body EXCEPT ![r] = b]
       /\ IF b.payload = NULL
          THEN Respond(r, 400, "Resume payload is required", 0)
          ELSE IF b.userId = NULL
          THEN Respond(r, 400, "User ID is required", 0)
          ELSE /\ spc' = [spc EXCEPT ![r] =
                    IF b.resumeId # NULL THEN "getResume" ELSE "insertResume"]
               /\ UNCHANGED saveResponse
  /\ UNCHANGED <<resumes, resume_versions, currentResume, nextVersionNo>>

\* Mutant of GetResume: the query does not filter on user_id.
GetResume_AnyUser(r) ==
  /\ OnlySave
  /\ spc[r] = "getResume"
  /\ LET row == resumes[body[r].resumeId]
         found == row # NoRow
     IN \/ /\ Respond(r, 500, "Error fetching existing resume", 0)
           /\ UNCHANGED currentResume
        \/ /\ ~found
           /\ Respond(r, 404, "Resume not found or you don't have permission to update it", 0)
           /\ UNCHANGED currentResume
        \/ /\ found
           /\ currentResume' = [currentResume EXCEPT ![r] = row]
           /\ spc' = [spc EXCEPT ![r] = "getVersion"]
           /\ UNCHANGED saveResponse
  /\ UNCHANGED <<resumes, resume_versions, body, nextVersionNo>>

\* from("resumes").select("payload, id").eq("id", ...).eq("user_id", ...).single()
GetResume(r) ==
  /\ OnlySave
  /\ spc[r] = "getResume"
  /\ LET row == resumes[body[r].resumeId]
         found == row # NoRow /\ row.user_id = body[r].userId
     IN \/ /\ Respond(r, 500, "Error fetching existing resume", 0)
           /\ UNCHANGED currentResume
        \/ /\ ~found
           /\ Respond(r, 404, "Resume not found or you don't have permission to update it", 0)
           /\ UNCHANGED currentResume
        \/ /\ found
           /\ currentResume' = [currentResume EXCEPT ![r] = row]
           /\ spc' = [spc EXCEPT ![r] = "getVersion"]
           /\ UNCHANGED saveResponse
  /\ UNCHANGED <<resumes, resume_versions, body, nextVersionNo>>

\* select("version_no").eq("resume_id", id).order(desc).limit(1), then
\* versionData.length > 0 ? versionData[0].version_no + 1 : 1
NextVersionNo(versions, id) ==
  LET nos == {versions[i].version_no : i \in {k \in 1..Len(versions) : versions[k].resume_id = id}}
  IN IF nos # {} THEN Max(nos) + 1 ELSE 1

GetVersion(r) ==
  /\ OnlySave
  /\ spc[r] = "getVersion"
  /\ \/ /\ Respond(r, 500, "Error fetching version data", 0)
        /\ UNCHANGED nextVersionNo
     \/ /\ nextVersionNo' = [nextVersionNo EXCEPT ![r] =
             NextVersionNo(resume_versions, body[r].resumeId)]
        /\ spc' = [spc EXCEPT ![r] = "insertVersion"]
        /\ UNCHANGED saveResponse
  /\ UNCHANGED <<resumes, resume_versions, body, currentResume>>

\* Mutant of InsertVersion: the update goes on without the version record.
InsertVersion_Skipped(r) ==
  /\ OnlySave
  /\ spc[r] = "insertVersion"
  /\ spc' = [spc EXCEPT ![r] = "updateResume"]
  /\ UNCHANGED <<resumes, resume_versions, body, currentResume, nextVersionNo,
                 saveResponse>>

\* Mutant of InsertVersion: the record holds the payload of the request.
InsertVersion_NewPayload(r) ==
  /\ OnlySave
  /\ spc[r] = "insertVersion"
  /\ \/ /\ Respond(r, 500, "Error creating version record", 0)
        /\ UNCHANGED resume_versions
     \/ /\ resume_versions' = Append(resume_versions,
             [version_id |-> VersionId(r),
              resume_id |-> body[r].resumeId, version_no |-> nextVersionNo[r],
              payload |-> body[r].payload, user_id |-> body[r].userId])
        /\ spc' = [spc EXCEPT ![r] = "updateResume"]
        /\ UNCHANGED saveResponse
  /\ UNCHANGED <<resumes, body, currentResume, nextVersionNo>>

\* from("resume_versions").insert({... version_no: nextVersionNo,
\* payload: currentResume.payload ...})
InsertVersion(r) ==
  /\ OnlySave
  /\ spc[r] = "insertVersion"
  /\ \/ /\ Respond(r, 500, "Error creating version record", 0)
        /\ UNCHANGED resume_versions
     \/ /\ resume_versions' = Append(resume_versions,
             [version_id |-> VersionId(r),
              resume_id |-> body[r].resumeId, version_no |-> nextVersionNo[r],
              payload |-> currentResume[r].payload, user_id |-> body[r].userId])
        /\ spc' = [spc EXCEPT ![r] = "updateResume"]
        /\ UNCHANGED saveResponse
  /\ UNCHANGED <<resumes, body, currentResume, nextVersionNo>>

\* from("resumes").update({...}).eq("id", ...).eq("user_id", ...).select().single()
UpdateResume(r) ==
  /\ OnlySave
  /\ spc[r] = "updateResume"
  /\ LET id == body[r].resumeId
         row == resumes[id]
     IN \/ /\ Respond(r, 500, "Error updating resume", 0)
           /\ UNCHANGED resumes
        \/ /\ row # NoRow /\ row.user_id = body[r].userId
           /\ resumes' = [resumes EXCEPT ![id] =
                [row EXCEPT !.payload = body[r].payload,
                            !.updated_at = Now(r),
                            !.company = IF body[r].company # NULL
                                        THEN body[r].company ELSE row.company,
                            !.resume_name = IF body[r].resume_name # NULL
                                            THEN body[r].resume_name
                                            ELSE row.resume_name]]
           /\ Respond(r, 200, "Resume updated successfully", nextVersionNo[r])
  /\ UNCHANGED <<resume_versions, body, currentResume, nextVersionNo>>

\* The create branch: from("resumes").insert({...}).select().single()
InsertResume(r) ==
  /\ OnlySave
  /\ spc[r] = "insertResume"
  /\ \/ /\ Respond(r, 500, "Error creating resume", 0)
        /\ UNCHANGED resumes
     \/ /\ resumes' = [resumes EXCEPT ![NewResumeId(r)] =
             [user_id |-> body[r].userId, payload |-> body[r].payload,
              company |-> IF body[r].company # NULL THEN body[r].company ELSE "Company",
              resume_name |-> IF body[r].resume_name # NULL
                              THEN body[r].resume_name ELSE "Resume",
              updated_at |-> Now(r)]]
        /\ spc' = [spc EXCEPT ![r] = "insertFirstVersion"]
        /\ UNCHANGED saveResponse
  /\ UNCHANGED <<resume_versions, body, currentResume, nextVersionNo>>

\* The create branch: the first version record.
InsertFirstVersion(r) ==
  /\ OnlySave
  /\ spc[r] = "insertFirstVersion"
  /\ \/ /\ Respond(r, 200, "Resume created successfully, but version tracking failed", 0)
        /\ UNCHANGED resume_versions
     \/ /\ resume_versions' = Append(resume_versions,
             [version_id |-> VersionId(r), resume_id |-> NewResumeId(r), version_no |-> 1,
              payload |-> body[r].payload, user_id |-> body[r].userId])
        /\ Respond(r, 200, "Resume created successfully", 1)
  /\ UNCHANGED <<resumes, body, currentResume, nextVersionNo>>

NextSave ==
  \/ \E r \in Requests : ReceiveSave(r)
  \/ \E r \in Requests : GetResume(r)
  \/ \E r \in Requests : GetVersion(r)
  \/ \E r \in Requests : InsertVersion(r)
  \/ \E r \in Requests : UpdateResume(r)
  \/ \E r \in Requests : InsertResume(r)
  \/ \E r \in Requests : InsertFirstVersion(r)

\* ------------------------------------------ extractBulletPoints: a call
InitExtract ==
  /\ text \in ExtractTexts
  /\ bullets = << >>
  /\ consulted = << >>

Extract ==
  /\ OnlyExtract
  /\ consulted = << >>
  /\ bullets' = extractBulletPoints(text)
  /\ consulted' = Consulted(text)
  /\ UNCHANGED text

NextExtract == Extract

\* --------------------------------- simultaneous optimize and parse calls
\* The locals of one invocation. polls and generations are history: the
\* status answers and the generation answers this invocation received.
NoLocals ==
  [kind |-> "none", pc |-> "idle",
   experience |-> << >>, bullet_points |-> << >>, grades |-> << >>,
   feedback |-> << >>, iteration_count |-> 0, allPassed |-> FALSE,
   gen |-> NoGen, ev |-> NoEv,
   filePath |-> << >>, retryCount |-> 0, isComplete |-> FALSE, jobResult |-> NULL,
   polls |-> 0, generations |-> 0, outcome |-> NULL]

\* optimizeResumeBullets: `let state` and `let allPassed`
OptimizeLocals ==
  [NoLocals EXCEPT !.kind = "optimize", !.pc = "generate",
                   !.bullet_points = EmptyFeedback4, !.grades = Empty4,
                   !.feedback = EmptyFeedback4]

\* POST (pdf-parser): `let filePath = null`
ParseLocals == [NoLocals EXCEPT !.kind = "parse", !.pc = "start"]

\* Both requests upload a file of the same name, each with its own bytes.
FileName == "resume.pdf"
FileBytes(c) == <<"bytes-1", "bytes-2">>[c]

\* uuidv4() of invocation c: a fresh id.
Uuid(c) == <<"uuid-a", "uuid-b">>[c]

\* Mutant of TempPath: the path is made of the file name alone.
TempPath_NameOnly(c, name) == <<"tmp", name>>

\* path.join(tempDir, `${uuidv4()}-${file.name}`)
TempPath(c, name) == <<"tmp", Uuid(c), "-", name>>

TempPaths == {TempPath(c, FileName) : c \in Calls}

\* The answers the capabilities give to simultaneous calls.
ConcResponses == {JoinLines([i \in 1..n |-> "dash"], 1) : n \in {3, 4}}
ConcEvalResults ==
  {[grade |-> "pass", feedback |-> << >>], [grade |-> "fail", feedback |-> <<"reason">>]}

\* Two optimize calls, or two parse requests.
InitConc ==
  /\ calls \in {[c \in Calls |-> OptimizeLocals], [c \in Calls |-> ParseLocals]}
  /\ disk = [p \in TempPaths |-> NULL]

\* A step of invocation c: its locals become l.
Step(c, l) == calls' = [calls EXCEPT ![c] = l]

\* The end of a parse request: the finally block unlinks the staged file (or
\* unlinkSync throws and the file stays), and the locals go out of scope.
Finished(c, outcome) ==
  LET p == calls[c].filePath
  IN /\ \/ disk' = IF p # << >> /\ disk[p] # NULL THEN [disk EXCEPT ![p] = NULL] ELSE disk
        \/ disk' = disk
     /\ Step(c, [NoLocals EXCEPT !.kind = "parse", !.pc = "returned", !.outcome = outcome])

\* saveFileToDisk: fs.writeFileSync(filePath, buffer)
ConcStage(c) ==
  /\ OnlyConc
  /\ calls[c].kind = "parse" /\ calls[c].pc = "start"
  /\ LET p == TempPath(c, FileName)
     IN /\ disk' = [disk EXCEPT ![p] = FileBytes(c)]
        /\ Step(c, [calls[c] EXCEPT !.filePath = p, !.pc = "upload"])

\* The upload request.
ConcUpload(c) ==
  /\ OnlyConc
  /\ calls[c].kind = "parse" /\ calls[c].pc = "upload"
  /\ \/ Finished(c, "Failed to upload file to LlamaParse")
     \/ /\ Step(c, [calls[c] EXCEPT !.pc = "poll"])
        /\ UNCHANGED disk

\* One turn of the poll loop.
ConcPoll(c) ==
  /\ OnlyConc
  /\ calls[c].kind = "parse" /\ calls[c].pc = "poll"
  /\ PollContinues(calls[c].isComplete, calls[c].retryCount)
  /\ LET l == [calls[c] EXCEPT !.retryCount = @ + 1, !.polls = @ + 1]
     IN \E status \in {"processing", "COMPLETED", "failed"} :
          IF ToLowerCase(status) = "completed"
          THEN /\ Step(c, [l EXCEPT !.isComplete = TRUE, !.pc = "result"])
               /\ UNCHANGED disk
          ELSE IF ToLowerCase(status) = "failed"
          THEN Finished(c, "Parsing job failed")
          ELSE /\ Step(c, l)
               /\ UNCHANGED disk

\* The result fetch of the completed branch.
ConcFetch(c) ==
  /\ OnlyConc
  /\ calls[c].kind = "parse" /\ calls[c].pc = "result"
  /\ \/ Finished(c, "Failed to get parsing results")
     \/ \E doc \in Documents :
          /\ Step(c, [calls[c] EXCEPT !.jobResult = doc, !.pc = "poll"])
          /\ UNCHANGED disk

\* After the loop: the timeout error or the result.
ConcExit(c) ==
  /\ OnlyConc
  /\ calls[c].kind = "parse" /\ calls[c].pc = "poll"
  /\ ~PollContinues(calls[c].isComplete, calls[c].retryCount)
  /\ Finished(c, IF calls[c].isComplete THEN calls[c].jobResult ELSE "timeout")

\* The state generateExperience returns.
Generated(l, iterations, exp, bps) ==
  [l EXCEPT !.experience = exp, !.bullet_points = bps, !.grades = Empty4,
            !.feedback = EmptyFeedback4, !.iteration_count = iterations,
            !.generations = @ + 1, !.gen = NoGen, !.ev = NoEv, !.pc = "evaluate"]

\* generateExperience up to the extraction of the answer to the main prompt.
ConcGenerate(c) ==
  /\ OnlyConc
  /\ calls[c].kind = "optimize" /\ calls[c].pc = "generate"
  /\ UNCHANGED disk
  /\ \E content \in ConcResponses :
       LET iterations == calls[c].iteration_count + 1
           exp == Trim(content)
           bps == extractBulletPoints(exp)
       IN IF NeedsRefill(iterations, bps)
          THEN Step(c, [calls[c] EXCEPT !.pc = "refill",
                          !.gen = [iterations |-> iterations, experience |-> exp,
                                   bullet_points |-> bps, i |-> 1]])
          ELSE Step(c, Generated(calls[c], iterations, exp, bps))

\* One turn of the loop over the missing bullets.
ConcRefill(c) ==
  /\ OnlyConc
  /\ calls[c].kind = "optimize" /\ calls[c].pc = "refill"
  /\ UNCHANGED disk
  /\ \E content \in RefillContents :
       LET g == calls[c].gen
           bps == g.bullet_points
           i == Min({k \in g.i..Len(bps) : bps[k] = << >>})
           filled == [bps EXCEPT ![i] = Trim(content)]
       IN IF \E k \in (i + 1)..Len(bps) : bps[k] = << >>
          THEN Step(c, [calls[c] EXCEPT !.gen = [g EXCEPT !.bullet_points = filled,
                                                          !.i = i + 1]])
          ELSE Step(c, Generated(calls[c], g.iterations, g.experience, filled))

\* One turn of the loop of evaluateBulletPoints.
ConcEvaluate(c) ==
  /\ OnlyConc
  /\ calls[c].kind = "optimize" /\ calls[c].pc = "evaluate"
  /\ Len(calls[c].ev.grades) < Len(calls[c].bullet_points)
  /\ UNCHANGED disk
  /\ LET l == calls[c]
         bp == l.bullet_points[Len(l.ev.grades) + 1]
     IN IF IsMissing(bp)
        THEN Step(c, [l EXCEPT !.ev = [grades |-> Append(l.ev.grades, "fail"),
                                       feedback |-> Append(l.ev.feedback, MissingFeedback)]])
        ELSE \E result \in ConcEvalResults :
               Step(c, [l EXCEPT !.ev =
                 [grades |-> Append(l.ev.grades, RecordedGrade(l.iteration_count, result)),
                  feedback |-> Append(l.ev.feedback,
                                      RecordedFeedback(l.iteration_count, result))]])

\* The return of evaluateBulletPoints, the check of the grades and the loop
\* test that follows.
ConcEvalReturn(c) ==
  /\ OnlyConc
  /\ calls[c].kind = "optimize" /\ calls[c].pc = "evaluate"
  /\ Len(calls[c].ev.grades) = Len(calls[c].bullet_points)
  /\ UNCHANGED disk
  /\ LET l == calls[c]
         passed == AllPassed(l.ev.grades)
     IN Step(c, [l EXCEPT !.grades = l.ev.grades, !.feedback = l.ev.feedback,
                          !.allPassed = passed, !.ev = NoEv,
                          !.pc = IF LoopContinues(passed, l.iteration_count)
                                 THEN "generate" ELSE "done"])

\* llm.invoke or evaluator.invoke rejects: the call ends by the exception.
ConcThrow(c) ==
  /\ OnlyConc
  /\ calls[c].kind = "optimize"
  /\ \/ calls[c].pc \in {"generate", "refill"}
     \/ /\ calls[c].pc = "evaluate"
        /\ Len(calls[c].ev.grades) < Len(calls[c].bullet_points)
        /\ ~IsMissing(calls[c].bullet_points[Len(calls[c].ev.grades) + 1])
  /\ UNCHANGED disk
  /\ \E e \in CapabilityErrors :
       Step(c, [NoLocals EXCEPT !.kind = "optimize", !.pc = "threw", !.outcome = e[1]])

NextConc ==
  \/ \E c \in Calls : ConcStage(c)
  \/ \E c \in Calls : ConcUpload(c)
  \/ \E c \in Calls : ConcPoll(c)
  \/ \E c \in Calls : ConcFetch(c)
  \/ \E c \in Calls : ConcExit(c)
  \/ \E c \in Calls : ConcGenerate(c)
  \/ \E c \in Calls : ConcRefill(c)
  \/ \E c \in Calls : ConcEvaluate(c)
  \/ \E c \in Calls : ConcEvalReturn(c)
  \/ \E c \in Calls : ConcThrow(c)

\* ------------------------------------------------------- Chat component
\* What the user may have typed into the text field.
ChatInputs == {<< >>, <<" ">>, <<"h", "i">>, <<"o", "k", " ">>}

\* The content of the last message of the agent (route.ts: agentMessage.content).
AgentContents == {<<"Here are optimized resume bullet points">>, <<"Hello">>}

ErrorText == <<"Sorry, I encountered an error. Please try again.">>

InitChat ==
  /\ messages = << >>
  /\ input = << >>
  /\ isLoading = FALSE
  /\ threadId = NULL
  /\ rendered = FALSE
  /\ requests = << >>

\* onChange={(e) => setInput(e.target.value)}
onChange ==
  /\ OnlyChat
  /\ \E value \in ChatInputs : input' = value
  /\ UNCHANGED <<messages, isLoading, threadId, rendered, requests>>

\* Mutant of Accepts: a message is accepted while a request is in flight.
Accepts_WhileLoading(typed, loading) == Trim(typed) # << >>

\* if (!input.trim() || isLoading) return;
Accepts(typed, loading) == Trim(typed) # << >> /\ ~loading

\* handleSend up to its await: the submit is dropped, or the user message is
\* appended, the field cleared, isLoading set and the request sent. The state
\* set in the submit event is rendered before the next event is handled.
handleSend ==
  /\ OnlyChat
  /\ Cardinality({i \in 1..Len(messages) : messages[i].role = "user"}) < MaxTurns
  /\ IF Accepts(input, rendered)
     THEN /\ messages' = Append(messages, [role |-> "user", content |-> input])
          /\ input' = << >>
          /\ isLoading' = TRUE
          /\ rendered' = TRUE
          /\ requests' = Append(requests,
               [message |-> input,
                thread_id |-> IF threadId # NULL THEN threadId ELSE "default"])
          /\ UNCHANGED threadId
     ELSE UNCHANGED chatVars

\* handleSend after its await, the response being ok: the thread id is kept,
\* the reply appended, and isLoading reset by the finally block. The agent
\* route answers with the thread id of the request.
handleSendReply ==
  /\ OnlyChat
  /\ requests # << >>
  /\ \E content \in AgentContents :
       messages' = Append(messages, [role |-> "assistant", content |-> content])
  /\ threadId' = Head(requests).thread_id
  /\ isLoading' = FALSE
  /\ requests' = Tail(requests)
  /\ UNCHANGED <<input, rendered>>

\* handleSend after its await, fetch or response.json() having rejected or
\* the response not being ok: the catch clause appends the fixed text, and
\* the finally block resets isLoading.
handleSendCatch ==
  /\ OnlyChat
  /\ requests # << >>
  /\ messages' = Append(messages, [role |-> "assistant", content |-> ErrorText])
  /\ isLoading' = FALSE
  /\ requests' = Tail(requests)
  /\ UNCHANGED <<input, threadId, rendered>>

\* The render that follows a state update made outside an event handler.
Render ==
  /\ OnlyChat
  /\ rendered # isLoading
  /\ rendered' = isLoading
  /\ UNCHANGED <<messages, input, isLoading, threadId, requests>>

NextChat ==
  \/ onChange
  \/ handleSend
  \/ handleSendReply
  \/ handleSendCatch
  \/ Render

\* ------------------------------------------------------- specifications
vars == <<optVars, parseVars, saveVars, extractVars, concVars, chatVars>>

IdleConc ==
  /\ calls = [c \in Calls |-> NoLocals]
  /\ disk = [p \in TempPaths |-> NULL]

IdleExtract == text = << >> /\ bullets = << >> /\ consulted = << >>

\* The component that is not running.
IdleOpt ==
  /\ opc = "idle" /\ job = "" /\ experience = << >> /\ bullet_points = << >>
  /\ grades = << >> /\ feedback = << >> /\ iteration_count = 0
  /\ allPassed = FALSE /\ gen = NoGen /\ prompt = << >> /\ ev = NoEv
  /\ llmCalls = 0
  /\ evalCalls = 0 /\ everyFail = TRUE /\ firstAllPass = FALSE
  /\ answers = << >> /\ asked = << >> /\ error = << >> /\ toolResult = << >>
  /\ agentResponse = NoAgentResponse

IdleParse ==
  /\ ppc = "idle" /\ param = NULL /\ apiKey = FALSE /\ form = "absent"
  /\ resultType = NULL /\ filePath = NULL /\ jobId = NULL /\ jobResult = NULL
  /\ isComplete = FALSE /\ retryCount = 0 /\ fileExists = FALSE
  /\ response = NoResponse /\ uploads = 0 /\ statusChecks = 0
  /\ resultFetches = 0 /\ delays = 0 /\ firstStatus = << >>
  /\ lastStatus = << >>
  /\ completedSeen = FALSE /\ pendingChecks = 0 /\ fetched = << >>
  /\ unlinkFailed = FALSE /\ cause = << >>

\* One optimizeResumeBullets call.
InitOptOnly ==
  InitOpt /\ IdleParse /\ InitSave /\ IdleExtract /\ IdleConc
  /\ InitChat
SpecOpt == InitOptOnly /\ [][NextOpt]_vars

\* One request to the pdf-parser POST handler.
InitParseOnly ==
  InitParse /\ IdleOpt /\ InitSave /\ IdleExtract /\ IdleConc
  /\ InitChat
SpecParse == InitParseOnly /\ [][NextParse]_vars

\* Concurrent requests to the resume-save POST handler.
InitSaveOnly ==
  InitSave /\ IdleOpt /\ IdleParse /\ IdleExtract /\ IdleConc
  /\ InitChat
SpecSave == InitSaveOnly /\ [][NextSave]_vars

\* Requests to the resume-save POST handler one after the other: a request
\* is received only when no other one is being handled. Resume r1 is there
\* from an earlier create request, whose version record may have failed.
Alone(r) == \A q \in Requests \ {r} : spc[q] \in {"idle", "done"}

ReceiveSaveAlone(r) == Alone(r) /\ ReceiveSave(r)

NextSaveSeq ==
  \/ \E r \in Requests : ReceiveSaveAlone(r)
  \/ \E r \in Requests : GetResume(r)
  \/ \E r \in Requests : GetVersion(r)
  \/ \E r \in Requests : InsertVersion(r)
  \/ \E r \in Requests : UpdateResume(r)
  \/ \E r \in Requests : InsertResume(r)
  \/ \E r \in Requests : InsertFirstVersion(r)

InitSaveSeq ==
  /\ resumes = [id \in ResumeIds |->
                  IF id = "r1"
                  THEN [user_id |-> "u1", payload |-> "payload-0", company |-> "Company",
                        resume_name |-> "Resume", updated_at |-> "t0"]
                  ELSE NoRow]
  /\ resume_versions \in
       {<< >>, <<[version_id |-> "version-0", resume_id |-> "r1",
                  version_no |-> 1, payload |-> "payload-0", user_id |-> "u1"]>>}
  /\ spc = [r \in Requests |-> "idle"]
  /\ body = [r \in Requests |-> NoBody]
  /\ currentResume = [r \in Requests |-> NoRow]
  /\ nextVersionNo = [r \in Requests |-> 0]
  /\ saveResponse = [r \in Requests |-> NoSaveResponse]

InitSaveSeqOnly ==
  InitSaveSeq /\ IdleOpt /\ IdleParse /\ IdleExtract /\ IdleConc
  /\ InitChat
SpecSaveSeq == InitSaveSeqOnly /\ [][NextSaveSeq]_vars

\* One call of extractBulletPoints.
InitExtractOnly ==
  InitExtract /\ IdleOpt /\ IdleParse /\ InitSave /\ IdleConc
  /\ InitChat
SpecExtract == InitExtractOnly /\ [][NextExtract]_vars

\* Two simultaneous invocations, each an optimize call or a parse request.
InitConcOnly ==
  InitConc /\ IdleOpt /\ IdleParse /\ InitSave /\ IdleExtract
  /\ InitChat
SpecConc == InitConcOnly /\ [][NextConc]_vars

\* The chat window: the user types and submits; the agent answers. A request
\* sent is answered or fails (fetch settles), and a pending render is done.
InitChatOnly ==
  InitChat /\ IdleOpt /\ IdleParse /\ InitSave /\ IdleExtract /\ IdleConc
SpecChat ==
  /\ InitChatOnly
  /\ [][NextChat]_vars
  /\ WF_vars(handleSendReply \/ handleSendCatch)
  /\ WF_vars(Render)

\* ------------------------------------------------------ optimizer: claims
\* s.includes(sub)
Contains(s, sub) ==
  \E k \in 0..(Len(s) - Len(sub)) : SubSeq(s, k + 1, k + Len(sub)) = sub

\* C1: whatever the job title and the (non-failing) answers of the generation
\* and evaluation capabilities, the state optimizeResumeBullets returns has
\* bullet_points, grades and feedback of length exactly 4 and an
\* iteration_count between 1 and 5.
C1_ReturnedShape ==
  opc = "done" =>
    /\ Len(bullet_points) = 4
    /\ Len(grades) = 4
    /\ Len(feedback) = 4
    /\ iteration_count \in 1..5

\* A return at the cap whose last bullet is padding.
C1_Witness ==
  /\ opc = "done"
  /\ iteration_count = 5
  /\ bullet_points[4] = << >>
  /\ bullet_points[1] # << >>

\* C2 (as stated): if every answer of the evaluator is "fail", the call
\* returns after exactly 5 iterations with all four grades "pass", each
\* feedback entry holding the evaluator's reason for that bullet.
C2_AlwaysFailForcedPass ==
  (opc = "done" /\ everyFail) =>
    /\ iteration_count = 5
    /\ llmCalls >= 5
    /\ \A i \in 1..4 :
         /\ grades[i] = "pass"
         /\ Len(answers) = 4
         /\ answers[i] # NoAnswer
         /\ Contains(feedback[i], answers[i].feedback)
         /\ Contains(feedback[i], ForcedPrefix)

\* C3: if the evaluator answers "pass" for all 4 bullets in iteration 1, the
\* call ends after that iteration: iteration_count stays 1, the generation
\* capability has been invoked once, and no generation or evaluation step
\* follows.
C3_FirstAllPassStops ==
  firstAllPass =>
    /\ opc \in {"loop", "done"}
    /\ iteration_count = 1
    /\ llmCalls = 1
    /\ allPassed

C3_Witness == firstAllPass /\ opc = "done"

\* C4 (as stated): in an evaluation with iteration_count >= 5 every recorded
\* grade is "pass", so a state returned at the cap has four "pass" grades.
C4_CapGradesAllPass ==
  /\ (opc = "evaluate" /\ iteration_count >= 5) =>
       \A i \in 1..Len(ev.grades) : ev.grades[i] = "pass"
  /\ (opc = "done" /\ iteration_count >= 5) =>
       \A i \in 1..4 : grades[i] = "pass"

\* ------------------------------------------------------ pdf-parser: claims
\* The result type the handler works with: the parameter, or its default.
Requested == IF param \in {NULL, ""} THEN "markdown" ELSE param

C6_FailedOnFirstPoll ==
  (firstStatus # << >> /\ firstStatus[1].status \in {"failed", "FAILED"}) =>
    /\ statusChecks = 1
    /\ retryCount = 1
    /\ resultFetches = 0
    /\ ppc \in {"finally", "returned"}
    /\ response.status = 500
    /\ SubSeq(response.error, 1, 1) = <<"Parsing job failed: ">>
    /\ firstStatus[1].error # NULL =>
         response.error = <<"Parsing job failed: ", firstStatus[1].error>>

C6_Witness ==
  /\ firstStatus # << >>
  /\ firstStatus[1].status = "failed"
  /\ firstStatus[1].error # NULL
  /\ ppc = "returned"

\* C7: if every status check is answered and none reports completed or a
\* failure, the request makes exactly 60 status checks and then fails with the
\* timeout error, whose message names 180 seconds.
C7_TimeoutAfter60Polls ==
  (ppc = "returned" /\ jobId # NULL /\ pendingChecks = statusChecks) =>
    /\ statusChecks = 60
    /\ retryCount = 60
    /\ resultFetches = 0
    /\ response = ErrorResponse(500,
         <<"PDF parsing timed out after ", "1", "8", "0", " seconds">>)

C7_Witness ==
  /\ ppc = "returned"
  /\ jobId # NULL
  /\ pendingChecks = statusChecks
  /\ firstStatus # << >>
  /\ firstStatus[1].status = "processing"

\* C8: a request whose resultType is none of markdown, text, json is answered
\* with the 400 validation error; no provider request is made and no
\* temporary file is created for it.
C8_InvalidTypeRejectedFirst ==
  Requested \notin {"markdown", "text", "json"} =>
    /\ uploads = 0
    /\ statusChecks = 0
    /\ resultFetches = 0
    /\ filePath = NULL
    /\ ~fileExists
    /\ ppc \in {"start", "finally", "returned"}
    /\ ppc # "start" => response = ErrorResponse(400,
         <<"Invalid result type. Supported types are: markdown, text, json">>)

C8_Witness == param = "xml" /\ ppc = "returned" /\ apiKey /\ form = "file"

\* C9: a success response is returned only after a status check reported
\* completed (in any letter case) and the result fetch for the job id of the
\* upload and the requested result type succeeded; the result is fetched at
\* most once, only after a completed status, and the response carries the
\* fetched structure unchanged.
C9_SuccessOnlyFromFetchedResult ==
  /\ resultFetches <= 1
  /\ resultFetches >= 1 => completedSeen
  /\ (ppc \in {"finally", "returned"} /\ response.status = 200) =>
       /\ completedSeen
       /\ resultFetches = 1
       /\ jobId # NULL
       /\ fetched = <<<<jobId, Requested, response.result>>>>
       /\ response.result \in Documents

C9_Witness ==
  /\ ppc = "returned"
  /\ response.status = 200
  /\ statusChecks = 3
  /\ firstStatus # << >>
  /\ firstStatus[1].status = "processing"
  /\ fetched # << >>
  /\ fetched[1][2] = "json"

\* ----------------------------------------------------- resume-save: claims
\* C10 (as stated): whatever the interleaving of the update requests for one
\* resume, the version_no values of its resume_versions rows increase strictly
\* in insertion order, so no two rows of one resume share a version_no.
C10_VersionNoStrictlyIncreasing ==
  \A i, j \in 1..Len(resume_versions) :
    (i < j /\ resume_versions[i].resume_id = resume_versions[j].resume_id) =>
      resume_versions[i].version_no < resume_versions[j].version_no

\* C11 (as stated): when the provider answers the upload, a status check or
\* the result fetch with a non-success HTTP status, the error returned to the
\* caller carries the status code and the body of that response.
C11_HttpErrorCarriesCodeAndBody ==
  (ppc = "returned" /\ cause # << >> /\ cause[1].kind = "http status") =>
    /\ response.status # 200
    /\ Contains(response.error, Decimal(cause[1].code))
    /\ Contains(response.error, <<cause[1].body>>)

\* What a caller reads off an error response: the failure condition its
\* status and message name.
Reported(resp) ==
  LET e == resp.error
  IN CASE resp.status = 400 /\ e = <<"Invalid result type. Supported types are: markdown, text, json">>
            -> "invalid result type"
       [] resp.status = 500 /\ e = <<"No job ID returned from LlamaParse">>
            -> "missing job id"
       [] resp.status = 500 /\ e # << >> /\
          e[1] \in {"Failed to upload file to LlamaParse: ", "Failed to check job status",
                    "Failed to get parsing results"}
            -> "http status"
       [] resp.status = 500 /\ e # << >> /\ e[1] = "Parsing job failed: "
            -> "provider failure"
       [] resp.status = 500 /\ e # << >> /\ e[1] = "PDF parsing timed out after "
            -> "timeout"
       [] OTHER -> "other"

FailureConditions ==
  {"invalid result type", "missing job id", "http status", "provider failure", "timeout"}

\* C15: the error a failed request returns tells its failure condition apart
\* from the others: invalid result type, missing job id, non-success HTTP
\* status, failure reported by the provider and polling timeout each have
\* their own error, no other condition is reported with one of them, and no
\* failure is answered with a success response.
C15_FailureConditionsDistinct ==
  (ppc = "returned" /\ cause # << >>) =>
    /\ response.status # 200
    /\ response.error # << >>
    /\ cause[1].kind \in FailureConditions => Reported(response) = cause[1].kind
    /\ cause[1].kind \notin FailureConditions => Reported(response) = "other"

\* A request that timed out after a first status check that reported no
\* failure.
C15_Witness ==
  /\ ppc = "returned"
  /\ cause # << >>
  /\ cause[1].kind = "timeout"
  /\ Reported(response) = "timeout"
  /\ retryCount = MAX_RETRIES

\* ------------------------------------------- optimizer: failure handling
\* C12: once an invocation of the generation or evaluation capability has
\* failed, the optimize call has failed with that error: it has returned no
\* state (nothing of the state reached so far is kept), and from then on no
\* generation or evaluation call is made.
C12_FailurePropagates ==
  /\ [](error # << >> =>
          /\ opc = "threw"
          /\ error \in CapabilityErrors
          /\ experience = << >>
          /\ bullet_points = << >>
          /\ grades = << >>
          /\ feedback = << >>)
  /\ [][error # << >> => (llmCalls' = llmCalls /\ evalCalls' = evalCalls /\ opc' = opc)]_vars

\* The evaluator rejected its second call in an evaluation that followed
\* three generation calls, and the caller has answered since.
C12_Witness ==
  /\ error # << >>
  /\ opc = "threw"
  /\ llmCalls = 3
  /\ evalCalls = 2
  /\ agentResponse # NoAgentResponse

\* C13 (as stated): when the optimize call has failed, the request of its
\* caller fails: the agent POST handler does not answer it with a normal
\* (status 200) result.
C13_CallerSurfacesFailure ==
  (error # << >> /\ agentResponse # NoAgentResponse) => agentResponse.status # 200

\* ------------------------------------------------- resume-save: versions
\* The rows of resume_versions that request r inserted.
VersionsOf(r) ==
  {i \in 1..Len(resume_versions) : resume_versions[i].version_id = VersionId(r)}

\* C16: resume_versions is append-only and snapshots every update: no step of
\* any request changes or removes a row that is already there, and a request
\* answered "Resume updated successfully" has appended exactly one row, for
\* its resume, holding the payload that the request read from the resume.
C16_VersionsAppendOnly ==
  /\ [][/\ Len(resume_versions') >= Len(resume_versions)
        /\ SubSeq(resume_versions', 1, Len(resume_versions)) = resume_versions]_vars
  /\ [](\A r \in Requests :
          saveResponse[r].message = "Resume updated successfully" =>
            /\ Cardinality(VersionsOf(r)) = 1
            /\ \A i \in VersionsOf(r) :
                 /\ resume_versions[i].resume_id = body[r].resumeId
                 /\ resume_versions[i].payload = currentResume[r].payload)

\* Two updates of one resume have both succeeded.
C16_Witness ==
  /\ \A r \in Requests : saveResponse[r].message = "Resume updated successfully"
  /\ Len(resume_versions) = 1 + MaxRequests

\* ------------------------------------------- extractBulletPoints: claims
\* The text is n numbered lines: every line starts with digits and a dot, and
\* none starts with a bullet marker.
NumberedLines(t, n) ==
  LET ls == SplitLines(t)
  IN /\ t # << >>
     /\ Len(ls) = n
     /\ \A i \in 1..n : DigitsDot(ls[i], 1) # 0

\* C17 (as stated): for a text of 3 numbered lines and no dash lines the
\* result is the 3 items the numbered pattern matches, followed by one empty
\* string.
C17_ThreeNumberedPadded ==
  (consulted # << >> /\ NumberedLines(text, 3)) =>
    bullets = NumberedMatches(text, 1) \o << << >> >>


\* Whether policy p was evaluated by the call.
WasConsulted(p) == \E i \in 1..Len(consulted) : consulted[i] = p

\* C18 (as stated): the result is the output of the first of the three
\* policies (bullet markers, numbered items, kept lines) that yields exactly 4
\* non-empty items, and a later policy is evaluated only when every earlier
\* one did not yield exactly 4 non-empty items.
C18_FirstPolicyWithFourNonEmpty ==
  consulted # << >> =>
    LET b == SelectNonEmpty(BulletMatches(text, 1))
        n == SelectNonEmpty(NumberedMatches(text, 1))
        l == SelectNonEmpty(LineItems(text))
    IN /\ Len(b) = 4 => (bullets = b /\ consulted = <<"bullet">>)
       /\ (Len(b) # 4 /\ Len(n) = 4) =>
            (bullets = n /\ consulted = <<"bullet", "numbered">>)
       /\ (Len(b) # 4 /\ Len(n) # 4 /\ Len(l) = 4) =>
            (bullets = l /\ consulted = <<"bullet", "numbered", "lines">>)
       /\ WasConsulted("numbered") => Len(b) # 4
       /\ WasConsulted("lines") => (Len(b) # 4 /\ Len(n) # 4)

\* C19: extractBulletPoints returns exactly 4 strings for every text: the
\* non-empty items of the list it selected, in their order, cut after the
\* fourth or followed by empty strings, so that no empty entry comes before a
\* non-empty one.
C19_ExactlyFourInOrder ==
  consulted # << >> =>
    LET items == SelectNonEmpty(Candidates(text))
    IN /\ Len(bullets) = 4
       /\ \A i \in 1..4 :
            bullets[i] = IF i <= Len(items) THEN items[i] ELSE << >>
       /\ \A i, j \in 1..4 : (i < j /\ bullets[i] = << >>) => bullets[j] = << >>

\* Five kept lines cut to the first four.
C19_Witness ==
  /\ consulted = <<"bullet", "numbered", "lines">>
  /\ Len(LineItems(text)) = 5
  /\ bullets = SubSeq(LineItems(text), 1, 4)


\* ------------------------------------------ evaluateBulletPoints: claims
\* The indices from i on of the non-empty entries of bps, in increasing order.
RECURSIVE NonEmptyFrom(_, _)
NonEmptyFrom(bps, i) ==
  IF i > Len(bps) THEN << >>
  ELSE (IF bps[i] # << >> THEN <<i>> ELSE << >>) \o NonEmptyFrom(bps, i + 1)

\* C20: when an evaluation has returned, every empty bullet has grade "fail"
\* and the missing-bullet feedback without the evaluator having been invoked
\* for it, and the evaluator has been invoked exactly once for each non-empty
\* bullet, in index order.
C20_EmptyBulletsNotEvaluated ==
  (opc \in {"loop", "done"} /\ iteration_count >= 1) =>
    /\ asked = NonEmptyFrom(bullet_points, 1)
    /\ evalCalls = Len(asked)
    /\ Len(answers) = 4
    /\ \A i \in 1..4 :
         bullet_points[i] = << >> =>
           /\ grades[i] = "fail"
           /\ feedback[i] = MissingFeedback
           /\ answers[i] = NoAnswer

\* An evaluation of two bullets followed by two missing ones.
C20_Witness ==
  /\ opc = "done"
  /\ bullet_points[1] # << >>
  /\ bullet_points[3] = << >>
  /\ asked = <<1, 2>>
  /\ grades[4] = "fail"


\* ------------------------------------------ simultaneous calls: claims
\* A step leaves invocation d alone: its locals (OptimizationState, retry
\* counter, ...) and the file it staged are what they were.
Untouched(d) ==
  /\ calls'[d] = calls[d]
  /\ calls[d].filePath # << >> => disk'[calls[d].filePath] = disk[calls[d].filePath]

\* C14: simultaneous optimize and parse calls are independent: a step of one
\* invocation never changes the OptimizationState, the retry counter or the
\* staged file of another; while a parse request is between staging and its
\* return the file at its path holds its own upload, even when both uploads
\* have the same name; and each invocation's retry counter and iteration
\* count tell exactly the answers that invocation itself received.
C14_InvocationsIndependent ==
  /\ [][\A c, d \in Calls : (c # d /\ calls'[c] # calls[c]) => Untouched(d)]_vars
  /\ [](\A c \in Calls :
          /\ calls[c].pc \in {"upload", "poll", "result"} =>
               disk[calls[c].filePath] = FileBytes(c)
          /\ calls[c].retryCount = calls[c].polls
          /\ calls[c].iteration_count = calls[c].generations)

\* Two parse requests for files of the same name, both polling, with
\* different retry counts and both files staged.
C14_Witness ==
  /\ \A c \in Calls : calls[c].kind = "parse" /\ calls[c].pc = "poll"
  /\ calls[1].retryCount = 3
  /\ calls[2].retryCount = 1
  /\ calls[1].filePath # calls[2].filePath
  /\ \A c \in Calls : disk[calls[c].filePath] = FileBytes(c)


\* ---------------------------------------------------------------- C21
\* The feedback a prompt embeds: the pairs <<n, fb>> of its lines
\* "(U+2022) Bullet point n: fb\n".
Embedded(p) ==
  {<<n, SubSeq(p, j + 3, e - 1)>> :
     <<n, j, e>> \in
       {x \in (1..4) \X (1..Len(p)) \X (1..Len(p)) :
          /\ x[2] + 3 <= x[3]
          /\ p[x[2]] = "(U+2022) Bullet point "
          /\ <<p[x[2] + 1]>> = Decimal(x[1])
          /\ p[x[2] + 2] = ": "
          /\ p[x[3]] = "\n"
          /\ \A m \in (x[2] + 3)..(x[3] - 1) : p[m] # "\n"}}

\* What the evaluation step of the iteration before recorded for bullet i: the
\* evaluator's feedback, or the fixed text for a bullet it was not asked about.
RecordedBefore(i) ==
  IF answers[i] = NoAnswer THEN MissingFeedback ELSE answers[i].feedback

\* C21: while the main generation call of iteration k is pending, the prompt
\* embeds, for k >= 2, exactly the non-empty feedback strings recorded by the
\* evaluation step of iteration k-1, each tagged with the (1-based) index of
\* its bullet, and for k = 1 no feedback at all.
C21_PromptEmbedsPreviousFeedback ==
  opc = "invoke" =>
    IF iteration_count + 1 = 1
    THEN Embedded(prompt) = {} /\ Len(prompt) = 3
    ELSE Embedded(prompt) =
           {<<i, RecordedBefore(i)>> : i \in {n \in 1..4 : RecordedBefore(n) # << >>}}

\* A second or later generation whose previous evaluation recorded feedback
\* for some bullets (one of them not evaluated at all) and none for another.
C21_Witness ==
  /\ opc = "invoke"
  /\ iteration_count >= 1
  /\ \E i, j, n \in 1..4 :
       /\ RecordedBefore(i) = <<"reason">>
       /\ RecordedBefore(j) = << >>
       /\ answers[n] = NoAnswer
  /\ Cardinality(Embedded(prompt)) \in 2..3


\* ---------------------------------------------------------------- C22
\* The slots of the answer exp that its extraction leaves empty, among the
\* slots before position n.
LeftEmpty(exp, n) ==
  {k \in 1..4 : k < n /\ extractBulletPoints(exp)[k] = << >>}

\* C22: the generation capability is invoked once in every iteration below
\* the fifth, and in the fifth once plus once per slot the extraction left
\* empty, and at no other point: whenever no generation call is pending the
\* calls made so far number iteration_count, plus in iteration 5 the slots
\* left empty; during the fifth iteration's refill they number 5 plus the
\* empty slots already passed; and an optimize call never makes more than 9,
\* failed calls included.
C22_GenerationCallsPerIteration ==
  /\ llmCalls <= 9
  /\ opc = "invoke" => llmCalls = iteration_count /\ iteration_count < 5
  /\ opc = "refill" =>
       /\ gen.iterations = 5
       /\ llmCalls = 5 + Cardinality(LeftEmpty(gen.experience, gen.i))
  /\ opc \in {"loop", "generate", "evaluate", "done"} =>
       llmCalls = iteration_count +
                  (IF iteration_count = 5
                   THEN Cardinality(LeftEmpty(experience, 5)) ELSE 0)

\* An optimize call that ended after 9 generation calls: the fifth answer
\* left all four slots empty.
C22_Witness ==
  /\ opc = "done"
  /\ iteration_count = 5
  /\ llmCalls = 9
  /\ LeftEmpty(experience, 5) = 1..4


\* ---------------------------------------------------------------- C23
\* The request ended on a provider response that was not ok.
HttpFailed == cause # << >> /\ cause[1].kind = "http status"

\* C23 (as stated): nothing but the status poll is retried: a parse call
\* issues the upload request exactly once and the result fetch at most once,
\* and a provider response that is not ok ends it with an error.
C23_UploadExactlyOnce ==
  /\ ppc = "returned" => uploads = 1 /\ resultFetches <= 1
  /\ HttpFailed => ppc \in {"finally", "returned"} /\ response.status = 500

\* C23 (amended): the upload request is issued at most once, and exactly once
\* by every call that got past validation and the staging of its file; the
\* result fetch is issued at most once; a provider response that is not ok,
\* to any of the three requests, ends the call with an error, and no provider
\* request follows it.
C23_NothingRetriedButThePoll ==
  /\ [](/\ uploads <= 1
        /\ resultFetches <= 1
        /\ ppc \in {"poll", "check", "result"} => uploads = 1
        /\ (ppc \in {"finally", "returned"} /\ filePath # NULL) => uploads = 1
        /\ (ppc \in {"start", "form", "upload"} \/ filePath = NULL) => uploads = 0
        /\ HttpFailed => ppc \in {"finally", "returned"} /\ response.status = 500)
  /\ [][HttpFailed => UNCHANGED <<uploads, statusChecks, resultFetches>>]_vars

\* A call that polled three times, fetched the result once, got a response
\* that was not ok for it, and returned the error.
C23_Witness ==
  /\ ppc = "returned"
  /\ HttpFailed
  /\ cause[1].step = "result"
  /\ uploads = 1 /\ statusChecks = 3 /\ resultFetches = 1
  /\ response.status = 500


\* ---------------------------------------------------------------- C24
\* The outcome of evaluating the current bullet i: the fixed failure for an
\* empty bullet, else the evaluator's answer for it (a pass in iteration 5,
\* with the feedback of a fail marked as forced).
OutcomeOf(i) ==
  IF bullet_points[i] = << >>
  THEN [grade |-> "fail", feedback |-> MissingFeedback]
  ELSE IF iteration_count < 5 THEN answers[i]
  ELSE [grade |-> "pass",
        feedback |-> IF answers[i].grade = "fail"
                     THEN ForcedPrefix \o answers[i].feedback
                     ELSE answers[i].feedback]

\* C24: throughout an optimize call bullet_points, grades and feedback have
\* length 4, and grades and feedback are either all unset or, slot by slot,
\* the outcome of evaluating the bullet now in that slot; the step that
\* replaces the bullets unsets them.
C24_GradesAlignedWithBullets ==
  /\ [](opc \in {"loop", "generate", "invoke", "refill", "evaluate", "done"} =>
          /\ Len(bullet_points) = 4 /\ Len(grades) = 4 /\ Len(feedback) = 4
          /\ \/ grades = Empty4 /\ feedback = EmptyFeedback4
             \/ /\ Len(answers) = 4
                /\ \A i \in 1..4 :
                     /\ grades[i] = OutcomeOf(i).grade
                     /\ feedback[i] = OutcomeOf(i).feedback
                     /\ (answers[i] = NoAnswer) = (bullet_points[i] = << >>))
  /\ [][(iteration_count' > iteration_count) =>
          grades' = Empty4 /\ feedback' = EmptyFeedback4]_vars

\* The third generation is under way: the state still holds the outcome of
\* the second evaluation, a pass, a fail with feedback and an empty bullet.
C24_Witness ==
  /\ opc = "invoke"
  /\ iteration_count = 2
  /\ \E i, j, k \in 1..4 :
       /\ grades[i] = "pass"
       /\ grades[j] = "fail" /\ feedback[j] = <<"reason">>
       /\ bullet_points[k] = << >> /\ feedback[k] = MissingFeedback


\* ---------------------------------------------------------------- C25
\* C25: in every state of a parse request retryCount is in 0..60, the status
\* checks issued so far number retryCount and so at most 60, and a status
\* check is issued only after a polling delay of its own: the delays taken
\* number the checks, plus the one whose check is still to be issued.
C25_RetryCounterBounded ==
  /\ [](/\ retryCount \in 0..MAX_RETRIES
        /\ statusChecks = retryCount
        /\ statusChecks <= 60
        /\ delays = IF ppc = "check" THEN statusChecks + 1 ELSE statusChecks)
  /\ [][statusChecks' # statusChecks =>
          /\ statusChecks' = statusChecks + 1
          /\ delays = statusChecks + 1
          /\ delays' = delays]_vars

\* The wait of the last turn is over and the 60th status check is due.
C25_Witness ==
  /\ ppc = "check"
  /\ retryCount = 59
  /\ statusChecks = 59
  /\ delays = 60


\* ---------------------------------------------------------------- C26
\* C26: a status body with status completed, in any letter case, makes the
\* request fetch the result, an error field in it notwithstanding; a body
\* with an error field and any other status, a missing one included, fails
\* the request at once with that error; a body with neither completed nor
\* failed as status and no error field sends the loop to its next turn.
C26_CompletedBeforeErrorField ==
  /\ [][(ppc = "check" /\ lastStatus' # << >>) =>
         LET s == lastStatus'[1]
             completed == s.status \in {"completed", "COMPLETED", "Completed"}
             failed == s.status \in {"failed", "FAILED"}
         IN /\ completed =>
                 ppc' = "result" /\ isComplete' /\ response' = NoResponse
            /\ (~completed /\ s.error # NULL) =>
                 /\ ppc' = "finally"
                 /\ response' = ErrorResponse(500, <<"Parsing job failed: ", s.error>>)
                 /\ ~isComplete'
            /\ (~completed /\ ~failed /\ s.error = NULL) =>
                 ppc' = "poll" /\ ~isComplete' /\ response' = NoResponse]_vars
  /\ [][ppc = "result" => resultFetches' = resultFetches + 1]_vars
  /\ [][(ppc = "poll" /\ ~isComplete /\ retryCount < MAX_RETRIES) =>
          ppc' = "check" /\ delays' = delays + 1]_vars
  /\ [](resultFetches > 0 => isComplete /\ completedSeen)

\* The second status body said COMPLETED and carried an error field; the
\* result was fetched and returned.
C26_Witness ==
  /\ ppc = "returned"
  /\ response.status = 200
  /\ statusChecks = 2
  /\ lastStatus # << >>
  /\ lastStatus[1].status = "COMPLETED"
  /\ lastStatus[1].error = "quota exceeded"
  /\ resultFetches = 1


\* ---------------------------------------------------------------- C27
\* Request r is an update whose userId does not own the resume it names.
NotOwner(r) ==
  /\ body[r].payload # NULL /\ body[r].userId # NULL /\ body[r].resumeId # NULL
  /\ resumes[body[r].resumeId].user_id # body[r].userId

\* C27: an update request of a user who does not own the resume changes
\* nothing: none of its steps writes the resumes row or appends a version
\* record; it ends at the ownership query, answered with an error.
C27_NonOwnerChangesNothing ==
  /\ [][\A r \in Requests :
          (spc'[r] # spc[r] /\ NotOwner(r)') =>
            resumes' = resumes /\ resume_versions' = resume_versions]_vars
  /\ [](\A r \in Requests :
          NotOwner(r) =>
            /\ spc[r] \in {"getResume", "done"}
            /\ VersionsOf(r) = {}
            /\ spc[r] = "done" => saveResponse[r].status \in {404, 500})

\* The update of r1 by u2 was answered with an error; r1 is as its owner
\* left it.
C27_Witness ==
  \E r \in Requests :
    /\ NotOwner(r)
    /\ body[r].userId = "u2" /\ body[r].resumeId = "r1"
    /\ spc[r] = "done"
    /\ saveResponse[r].status \in {404, 500}
    /\ resumes["r1"].payload = "payload-0" /\ resumes["r1"].updated_at = "t0"
    /\ Len(resume_versions) = 1


\* ---------------------------------------------------------------- C28
\* C28 (as stated): an update request answered with an error has left the
\* persisted state as it was: it has appended no version record (and, the
\* update being its last write, has not modified the resumes row).
C28_FailedUpdateChangesNothing ==
  \A r \in Requests :
    (spc[r] = "done" /\ body[r].resumeId # NULL /\ saveResponse[r].status >= 400) =>
      /\ VersionsOf(r) = {}
      /\ resumes[body[r].resumeId].updated_at # Now(r)


\* ---------------------------------------------------------------- C29
\* The highest version_no among the records of resume id, 0 if it has none.
HighestVersionNo(id) ==
  Max({0} \cup {resume_versions[i].version_no :
                  i \in {k \in 1..Len(resume_versions) :
                           resume_versions[k].resume_id = id}})

\* C29: in a sequential run, the version record an update request appends
\* holds the payload its resume has at that moment, which is the payload the
\* update that follows replaces, and not the payload of the request; its
\* version_no is one more than the highest version_no of that resume so far
\* (1 if it has no record); the record a create request appends holds the
\* payload of the request as version 1 of the new resume.
C29_VersionHoldsPreviousPayload ==
  /\ [][\A r \in Requests :
          (VersionsOf(r) = {} /\ VersionsOf(r)' # {}) =>
            LET v == resume_versions'[Len(resume_versions')]
            IN IF body[r].resumeId # NULL
               THEN /\ v.resume_id = body[r].resumeId
                    /\ v.payload = resumes[body[r].resumeId].payload
                    /\ v.payload # body[r].payload
                    /\ v.version_no = HighestVersionNo(body[r].resumeId) + 1
               ELSE /\ v.resume_id = NewResumeId(r)
                    /\ v.payload = body[r].payload
                    /\ v.payload = resumes[NewResumeId(r)].payload
                    /\ v.version_no = 1
                    /\ HighestVersionNo(NewResumeId(r)) = 0]_vars
  /\ [][\A r \in Requests :
          (body[r].resumeId # NULL /\ spc[r] = "updateResume" /\ resumes' # resumes) =>
            /\ Cardinality(VersionsOf(r)) = 1
            /\ \A i \in VersionsOf(r) :
                 /\ i = Len(resume_versions)
                 /\ resume_versions[i].payload = resumes[body[r].resumeId].payload
                 /\ resumes'[body[r].resumeId].payload = body[r].payload]_vars

\* Two updates of r1, which had no version record, one after the other: the
\* records are version 1 with the first payload of r1 and version 2 with the
\* payload the first update wrote.
C29_Witness ==
  /\ \A r \in Requests : saveResponse[r].message = "Resume updated successfully"
  /\ Len(resume_versions) = 2
  /\ resume_versions[1].version_no = 1 /\ resume_versions[1].payload = "payload-0"
  /\ resume_versions[2].version_no = 2
  /\ resume_versions[2].payload \in {PayloadOf(r) : r \in Requests}


\* ---------------------------------------------------------------- C30
\* The message list alternates user, assistant, starting with a user message.
Alternates(msgs) ==
  \A i \in 1..Len(msgs) :
    msgs[i].role = IF i % 2 = 1 THEN "user" ELSE "assistant"

\* C30: no request is sent to the agent while one is in flight, and isLoading
\* is true exactly while one is; the message list always alternates user,
\* assistant from a user message on; a step appends at most one message, an
\* assistant message only in answer to the request in flight; and every
\* accepted user message, the n-th for each n, is eventually followed by its
\* assistant message (the reply or the fixed error text) with isLoading false.
C30_OneReplyPerMessage ==
  /\ [](/\ Len(requests) <= 1
        /\ isLoading = (Len(requests) = 1)
        /\ isLoading = (Len(messages) % 2 = 1)
        /\ Alternates(messages)
        /\ \A i \in 1..Len(messages) :
             messages[i].role = "assistant" =>
               messages[i].content \in AgentContents \cup {ErrorText})
  /\ [][/\ Len(requests') > Len(requests) => ~isLoading /\ requests = << >>
        /\ Len(messages') <= Len(messages) + 1
        /\ SubSeq(messages', 1, Len(messages)) = messages
        /\ Len(requests') < Len(requests) =>
             /\ Len(messages') = Len(messages) + 1
             /\ messages'[Len(messages')].role = "assistant"]_vars
  /\ \A n \in 1..MaxTurns :
       (Len(messages) = 2 * n - 1) ~> (Len(messages) = 2 * n /\ ~isLoading)

\* Three messages were sent and answered, the first with a reply of the
\* agent and the second with the error text; the user has typed a fourth.
C30_Witness ==
  /\ Len(messages) = 6
  /\ ~isLoading
  /\ messages[2].content \in AgentContents
  /\ messages[4].content = ErrorText
  /\ threadId = "default"
  /\ input = <<"h", "i">>

====
